---- MODULE Spec2Model ----
(***************************************************************************)
(* Aggregation and merge engine of farm-climate-report:                    *)
(*   src/src/services/aggregation/{aggregator,fetchers,resolver,demo,      *)
(*   models,pest_hints,soft_hints}.py and src/src/api/routes/aggregate.py. *)
(*                                                                         *)
(* Conventions.  An Optional[T] value is a sequence of length <= 1: None   *)
(* is <<>> and a present value v is <<v>>.  A calendar date is the number  *)
(* of days since a fixed day 0, a datetime is the number of hours since    *)
(* day 0, 00:00 Asia/Seoul, so date(ts) = ts \div 24 and hour(ts) = ts % 24.*)
(* Floats are integers.  A value of an upstream payload (a JSON value read *)
(* with dict.get) is a tagged record, see RawNull .. RawTs.                *)
(***************************************************************************)
EXTENDS Integers, Sequences, FiniteSets, TLC

VARIABLES
    \* --- one aggregate request (AggregationService.aggregate + endpoint)
    records,      \* ProfileResolver._records of the service's resolver
    pc,           \* "idle" | "fetching" | "done"
    req,          \* the AggregateRequest being served
    tasks,        \* per fetcher: "none" | "pending" | the task's result
    calls,        \* per fetcher: fetch() invocations during this request
    response,     \* the endpoint's response: status and evidence pack
    \* --- daily merge (AggregationService._merge_daily)
    kmaDaily,     \* kma_norm.daily
    omDailyIn,    \* open_meteo_norm.daily as handed to the merge
    omDaily,      \* open_meteo_norm.daily, the same list after the merge
    dailyOut,     \* climate.daily
    dpc,          \* "ready" | "merged" | "again"
    \* --- hourly merge (AggregationService._merge_hourly)
    kmaHourly,    \* kma_norm.hourly
    omHourly,     \* open_meteo_norm.hourly
    hourlyOut,    \* climate.hourly
    hpc,          \* "ready" | "merged"
    \* --- one fetcher object (fetchers.py) and the fetch() call it serves
    fetcher,      \* which class it is and how it is configured
    cache,        \* BaseFetcher._cache: a set of [key, payload] entries
    fpc,          \* "off" | "idle" | "kma_sub" | "done" | "cancelled"
    fcall,        \* the ResolvedProfile handed to fetch()
    sub,          \* KmaFetcher.fetch: the three sub-call tasks
    http,         \* the GET requests sent during this call, in order
    fresult,      \* what fetch() returned or raised
    \* --- one call of a pure method on its own
    fn,           \* the method called
    arg,          \* its argument
    ret,          \* "pending", or what the call returned or raised
    \* --- BaseFetcher._get_client and the coroutines calling it
    client,       \* self._client: 0 for None, else the number of the client
    built,        \* how many httpx.AsyncClient objects have been constructed
    lock,         \* self._lock: 0 when free, else the caller holding it
    gpc,          \* per caller: where it is in _get_client
    got,          \* per caller: the client _get_client returned, 0 for none yet
    \* --- the store behind the SMS webhook and POST /api/briefs
    store,        \* MemoryStore: _opt_out, _pending_change, _profiles, briefs
    inbound,      \* the message or request handled last
    reply         \* the reply to it

aggVars == <<records, pc, req, tasks, calls, response>>
dailyVars == <<kmaDaily, omDailyIn, omDaily, dailyOut, dpc>>
hourlyVars == <<kmaHourly, omHourly, hourlyOut, hpc>>
fetchVars == <<fetcher, cache, fpc, fcall, sub, http, fresult>>
callVars == <<fn, arg, ret>>
clientVars == <<client, built, lock, gpc, got>>
kwVars == <<store, inbound, reply>>
vars == <<aggVars, dailyVars, hourlyVars, fetchVars, callVars, clientVars,
          kwVars>>

(***************************************************************************)
(* Optional values and Python truthiness                                   *)
(***************************************************************************)
None == <<>>
Some(v) == <<v>>

\* bool(x) of an Optional[str]: None and "" are falsy
TruthyStr(o) == o # None /\ o[1] # ""

\* max() of a non-empty set of integers
MaxOf(S) == CHOOSE x \in S : \A y \in S : y <= x
MinOf(S) == CHOOSE x \in S : \A y \in S : x <= y

(***************************************************************************)
(* Raw payload values and the defensive coercions                          *)
(***************************************************************************)
RawNull == [t |-> "null"]
RawNum(n) == [t |-> "num", n |-> n]
RawStr(s) == [t |-> "str", s |-> s]
\* a date object or an ISO "YYYY-MM-DD" string for day d
RawDate(d) == [t |-> "date", d |-> d]
\* an ISO datetime string: wall clock hour h, zone "kst" | "utc" | "naive"
RawTs(h, tz) == [t |-> "ts", h |-> h, tz |-> tz]

KstOffsetHours == 9

\* float(s) of the strings the model uses; any other string does not parse
FloatOfStr(s) ==
    CASE s = "18" -> Some(18)
      [] s = "0" -> Some(0)
      [] OTHER -> None

coerce_float(value) ==
    IF value.t = "null" THEN None
    ELSE IF value.t = "num" THEN Some(value.n)
    ELSE IF value.t = "str" THEN FloatOfStr(value.s)
    ELSE None

coerce_datetime(value) ==
    IF value.t = "null" THEN None
    ELSE IF value.t = "ts"
         THEN IF value.tz = "utc" THEN Some(value.h + KstOffsetHours)
              ELSE Some(value.h)
    ELSE None

coerce_date(value, now) ==
    IF value.t = "date" THEN value.d
    ELSE now \div 24

\* entry.get("summary"): a string or None, passed through unchanged
GetStr(value) == IF value.t = "str" THEN Some(value.s) ELSE None

(***************************************************************************)
(* models.py: ClimateDaily, ClimateHourly                                  *)
(***************************************************************************)
ClimateDaily(date, tmax_c, tmin_c, precip_mm, wind_ms, summary, pop, src) ==
    [date |-> date, tmax_c |-> tmax_c, tmin_c |-> tmin_c,
     precip_mm |-> precip_mm, wind_ms |-> wind_ms, summary |-> summary,
     precip_probability_pct |-> pop, src |-> src]

ClimateHourly(ts, t_c, rh_pct, wind_ms, gust_ms, precip_mm, swrad_wm2, src) ==
    [ts |-> ts, t_c |-> t_c, rh_pct |-> rh_pct, wind_ms |-> wind_ms,
     gust_ms |-> gust_ms, precip_mm |-> precip_mm, swrad_wm2 |-> swrad_wm2,
     src |-> src]

\* the daily loop of _normalize_kma / _normalize_open_meteo
normalize_daily(entries, src, now) ==
    [i \in DOMAIN entries |->
        ClimateDaily(coerce_date(entries[i].date, now),
                     coerce_float(entries[i].tmax_c),
                     coerce_float(entries[i].tmin_c),
                     coerce_float(entries[i].precip_mm),
                     coerce_float(entries[i].wind_ms),
                     GetStr(entries[i].summary),
                     coerce_float(entries[i].precip_probability_pct),
                     src)]

\* the hourly loop; swrad_wm2 is read for Open-Meteo only.  ts stays an
\* Optional here: ClimateHourly(ts=None) is rejected by the model class,
\* see HourlyValid.
normalize_hourly(entries, src) ==
    [i \in DOMAIN entries |->
        ClimateHourly(coerce_datetime(entries[i].ts),
                      coerce_float(entries[i].t_c),
                      coerce_float(entries[i].rh_pct),
                      coerce_float(entries[i].wind_ms),
                      coerce_float(entries[i].gust_ms),
                      coerce_float(entries[i].precip_mm),
                      IF src = "open-meteo"
                          THEN coerce_float(entries[i].swrad_wm2) ELSE None,
                      src)]

\* ClimateHourly.ts is a required datetime: a None raises ValidationError
HourlyValid(series) == \A i \in DOMAIN series : series[i].ts # None

\* the records of a valid normalized hourly series, ts unwrapped
HourlyRecords(series) ==
    [i \in DOMAIN series |-> [series[i] EXCEPT !.ts = series[i].ts[1]]]

(***************************************************************************)
(* aggregator.py: _determine_base_date, _merge_daily                       *)
(***************************************************************************)
HorizonDays == 11
WindowHours == 72

\* {entry.date: entry for entry in series}.get(day): the index of the last
\* entry of that date (a later entry replaces an earlier one), 0 for None
DailyGet(series, day) ==
    IF \E i \in DOMAIN series : series[i].date = day
        THEN MaxOf({i \in DOMAIN series : series[i].date = day})
        ELSE 0

\* a merge that replaces the Open-Meteo record by the KMA record
EnrichReplaceWhole(om_entry, kma_entry) == kma_entry

\* a merge that always takes the KMA narrative fields
EnrichAlwaysCopy(om_entry, kma_entry) ==
    [om_entry EXCEPT !.summary = kma_entry.summary,
                     !.precip_probability_pct = kma_entry.precip_probability_pct]

\* aggregator.py:352-360: the two conditional copies, made on the
\* Open-Meteo object itself
Enrich(om_entry, kma_entry) ==
    [om_entry EXCEPT
        !.summary = IF TruthyStr(kma_entry.summary) /\ ~TruthyStr(@)
                        THEN kma_entry.summary ELSE @,
        !.precip_probability_pct =
            IF kma_entry.precip_probability_pct # None /\ @ = None
                THEN kma_entry.precip_probability_pct ELSE @]

\* the loop `for offset in range(0, 11)`; om is the Open-Meteo list, whose
\* objects the loop updates in place, horizon the list being built
RECURSIVE MergeDailyLoop(_, _, _, _, _)
MergeDailyLoop(offset, base_date, kma, om, horizon) ==
    IF offset >= HorizonDays THEN [horizon |-> horizon, om |-> om]
    ELSE LET day == base_date + offset
             oi == DailyGet(om, day)
             ki == DailyGet(kma, day)
         IN  IF oi # 0
             THEN LET om2 == IF ki # 0
                                THEN [om EXCEPT ![oi] = Enrich(@, kma[ki])]
                                ELSE om
                  IN  MergeDailyLoop(offset + 1, base_date, kma, om2,
                                     Append(horizon, om2[oi]))
             ELSE IF ki # 0
             THEN MergeDailyLoop(offset + 1, base_date, kma, om,
                                 Append(horizon, kma[ki]))
             ELSE MergeDailyLoop(offset + 1, base_date, kma, om, horizon)

\* [horizon: the returned list, om: open_meteo_daily after the call]
merge_daily(base_date, kma_daily, open_meteo_daily) ==
    MergeDailyLoop(0, base_date, kma_daily, open_meteo_daily, <<>>)

\* a base date that prefers the KMA series
BaseDateKmaFirst(open_meteo_daily, kma_daily, now) ==
    IF kma_daily # <<>> THEN kma_daily[1].date
    ELSE IF open_meteo_daily # <<>> THEN open_meteo_daily[1].date
    ELSE now \div 24

determine_base_date(open_meteo_daily, kma_daily, now) ==
    IF open_meteo_daily # <<>> THEN open_meteo_daily[1].date
    ELSE IF kma_daily # <<>> THEN kma_daily[1].date
    ELSE now \div 24

\* climate.daily counted from the day of the call
BuildDailyFromToday(kma_daily, open_meteo_daily, now) ==
    IF kma_daily # <<>> \/ open_meteo_daily # <<>>
        THEN merge_daily(now \div 24, kma_daily, open_meteo_daily)
        ELSE [horizon |-> <<>>, om |-> open_meteo_daily]

\* aggregator.py:152-156: climate.daily, with the Open-Meteo list as the
\* merge leaves it
build_daily(kma_daily, open_meteo_daily, now) ==
    IF kma_daily # <<>> \/ open_meteo_daily # <<>>
        THEN merge_daily(determine_base_date(open_meteo_daily, kma_daily, now),
                         kma_daily, open_meteo_daily)
        ELSE [horizon |-> <<>>, om |-> open_meteo_daily]

(***************************************************************************)
(* aggregator.py: _merge_hourly                                            *)
(***************************************************************************)
HourlyGet(series, ts) ==
    IF \E i \in DOMAIN series : series[i].ts = ts
        THEN MaxOf({i \in DOMAIN series : series[i].ts = ts})
        ELSE 0

\* sorted(S) of a finite set of integers
RECURSIVE Sorted(_)
Sorted(S) == IF S = {} THEN <<>>
             ELSE <<MinOf(S)>> \o Sorted(S \ {MinOf(S)})

\* sorted(set(kma_map) | set(om_map))
Timestamps(kma_hourly, open_meteo_hourly) ==
    Sorted({kma_hourly[i].ts : i \in DOMAIN kma_hourly}
           \cup {open_meteo_hourly[i].ts : i \in DOMAIN open_meteo_hourly})

\* a pick that prefers Open-Meteo: om_map.get(ts) or kma_map.get(ts)
PickOmFirst(kma_hourly, open_meteo_hourly, ts) ==
    IF HourlyGet(open_meteo_hourly, ts) # 0
        THEN open_meteo_hourly[HourlyGet(open_meteo_hourly, ts)]
        ELSE kma_hourly[HourlyGet(kma_hourly, ts)]

\* kma_map.get(ts) or om_map.get(ts)
PickHourly(kma_hourly, open_meteo_hourly, ts) ==
    IF HourlyGet(kma_hourly, ts) # 0
        THEN kma_hourly[HourlyGet(kma_hourly, ts)]
        ELSE open_meteo_hourly[HourlyGet(open_meteo_hourly, ts)]

\* a window that keeps the timestamp at start + 72h as well
LimitInclusive(start) == start + WindowHours + 1
\* limit = start + timedelta(hours=72)
HourlyLimit(start) == start + WindowHours

\* `for ts in timestamps: if ts >= limit: break; ...`
RECURSIVE MergeHourlyLoop(_, _, _, _, _, _)
MergeHourlyLoop(i, timestamps, limit, kma, om, merged) ==
    IF i > Len(timestamps) THEN merged
    ELSE IF timestamps[i] >= limit THEN merged
    ELSE MergeHourlyLoop(i + 1, timestamps, limit, kma, om,
                         Append(merged, PickHourly(kma, om, timestamps[i])))

merge_hourly(kma_hourly, open_meteo_hourly) ==
    IF kma_hourly = <<>> /\ open_meteo_hourly = <<>> THEN <<>>
    ELSE LET timestamps == Timestamps(kma_hourly, open_meteo_hourly)
             start == MinOf({timestamps[i] : i \in DOMAIN timestamps})
         IN  MergeHourlyLoop(1, timestamps, HourlyLimit(start),
                             kma_hourly, open_meteo_hourly, <<>>)

(***************************************************************************)
(* Daily merge: the inputs                                                 *)
(***************************************************************************)
RawDaily(date, tmax_c, tmin_c, precip_mm, wind_ms, summary, pop) ==
    [date |-> date, tmax_c |-> tmax_c, tmin_c |-> tmin_c,
     precip_mm |-> precip_mm, wind_ms |-> wind_ms, summary |-> summary,
     precip_probability_pct |-> pop]

MaxDay == 12
MaxDailyLen == 2

\* <<tmax_c, tmin_c, precip_mm, wind_ms>>, in tenths
OmNumerics == {<<RawNum(200), RawNum(100), RawNum(0), RawNum(30)>>,
               <<RawNum(180), RawNull, RawNum(50), RawNull>>,
               <<RawNull, RawNull, RawNull, RawNull>>}
KmaNumerics == {<<RawNull, RawNull, RawNull, RawNull>>,
                <<RawNum(250), RawNum(150), RawNull, RawNull>>,
                <<RawNum(250), RawNum(150), RawNum(70), RawNum(90)>>}
OmSummaries == {RawNull, RawStr(""), RawStr("cloudy")}
KmaSummaries == {RawNull, RawStr(""), RawStr("clear")}
OmPops == {RawNull, RawNum(0), RawNum(300)}
KmaPops == {RawNull, RawNum(0), RawNum(600)}

\* one-entry payloads on day 0 or 1, every combination of fields
RichDaily(numerics, summaries, pops) ==
    {<<>>} \cup
    {<<RawDaily(RawDate(d), n[1], n[2], n[3], n[4], s, p)>> :
        d \in 0..1, n \in numerics, s \in summaries, p \in pops}

\* the entries of `days` in ascending date order, as the fetchers emit them
RECURSIVE AscendingDaily(_, _, _, _)
AscendingDaily(days, n, s, p) ==
    IF days = {} THEN <<>>
    ELSE <<RawDaily(RawDate(MinOf(days)), n[1], n[2], n[3], n[4], s, p)>>
         \o AscendingDaily(days \ {MinOf(days)}, n, s, p)

\* up to MaxDailyLen days out of 0..MaxDay, one shape of entry per source
SparseDaily(n, s, p) ==
    {AscendingDaily(days, n, s, p) :
        days \in {D \in SUBSET (0..MaxDay) : Cardinality(D) <= MaxDailyLen}}

\* <<kma payload "daily", open-meteo payload "daily">>
DailyInputs ==
    (RichDaily(KmaNumerics, KmaSummaries, KmaPops)
        \X RichDaily(OmNumerics, OmSummaries, OmPops))
    \cup
    (SparseDaily(<<RawNull, RawNull, RawNull, RawNull>>, RawStr("clear"),
                 RawNum(600))
        \X SparseDaily(<<RawNum(200), RawNum(100), RawNum(0), RawNum(30)>>,
                       RawNull, RawNull))

(***************************************************************************)
(* Hourly merge: the inputs                                                *)
(***************************************************************************)
RawHourly(ts, t_c, rh_pct, wind_ms, gust_ms, precip_mm, swrad_wm2) ==
    [ts |-> ts, t_c |-> t_c, rh_pct |-> rh_pct, wind_ms |-> wind_ms,
     gust_ms |-> gust_ms, precip_mm |-> precip_mm, swrad_wm2 |-> swrad_wm2]

MaxHourSpread == 1
MaxHourlyLen == 2

\* hours at the start of the window and around its end
HourPoints == (0..MaxHourSpread)
              \cup ((WindowHours - 1)..(WindowHours + MaxHourSpread))

SeqsUpTo(S, n) == UNION {[1..k -> S] : k \in 0..n}

KmaHourlyEntries ==
    {RawHourly(RawTs(h, "kst"), RawNum(210), RawNum(650), RawNum(24),
               RawNull, RawNum(0), RawNull) : h \in HourPoints}
OmHourlyEntries ==
    {RawHourly(RawTs(h, "kst"), RawNum(190), RawNum(900), RawNum(110),
               RawNum(130), RawNum(5), RawNum(400)) : h \in HourPoints}

\* <<kma payload "hourly", open-meteo payload "hourly">>
HourlyInputs ==
    SeqsUpTo(KmaHourlyEntries, MaxHourlyLen)
        \X SeqsUpTo(OmHourlyEntries, MaxHourlyLen)

(***************************************************************************)
(* aggregator.py: the normalizers                                          *)
(***************************************************************************)
\* WeatherWarning(type=entry.get("type", "HEAT"), ...): a RawNull field is
\* a key the entry does not have
normalize_warnings(entries) ==
    [i \in DOMAIN entries |->
        [type |-> IF entries[i].type.t = "str" THEN entries[i].type.s
                  ELSE "HEAT",
         level |-> IF entries[i].level.t = "str" THEN entries[i].level.s
                   ELSE "WATCH",
         area |-> IF entries[i].area.t = "str" THEN entries[i].area.s ELSE "",
         source |-> "kma",
         from_ |-> coerce_datetime(entries[i].from),
         to |-> coerce_datetime(entries[i].to)]]

WarningTypes == {"HEAT", "RAIN", "WIND", "COLD", "TYPHOON"}
WarningLevels == {"WATCH", "WARNING"}

\* models.py:63-73: the fields WeatherWarning validates
WarningsValid(warnings) ==
    \A i \in DOMAIN warnings :
        /\ warnings[i].type \in WarningTypes
        /\ warnings[i].level \in WarningLevels
        /\ warnings[i].from_ # None
        /\ warnings[i].to # None

EmptySource ==
    [issued_at |-> None, daily |-> <<>>, hourly |-> <<>>, warnings |-> <<>>,
     provenance |-> None]

\* data: None or Some(payload dict)
normalize_kma(data, now) ==
    IF data = None THEN EmptySource
    ELSE [issued_at |-> coerce_datetime(data[1].issued_at),
          daily |-> normalize_daily(data[1].daily, "kma", now),
          hourly |-> normalize_hourly(data[1].hourly, "kma"),
          warnings |-> normalize_warnings(data[1].warnings),
          provenance |-> GetStr(data[1].provenance)]

normalize_open_meteo(data, now) ==
    IF data = None THEN EmptySource
    ELSE [issued_at |-> coerce_datetime(data[1].issued_at),
          daily |-> normalize_daily(data[1].daily, "open-meteo", now),
          hourly |-> normalize_hourly(data[1].hourly, "open-meteo"),
          warnings |-> <<>>,
          provenance |-> GetStr(data[1].provenance)]

\* the model classes accept the normalized source
SourceValid(norm) == HourlyValid(norm.hourly) /\ WarningsValid(norm.warnings)

\* an aggregate that gives up when neither weather source has anything
ErrorWhenNoWeather(kma_norm, open_meteo_norm) ==
    IF ~(SourceValid(kma_norm) /\ SourceValid(open_meteo_norm))
        THEN Some("ValueError")
    ELSE IF kma_norm.daily = <<>> /\ kma_norm.hourly = <<>>
            /\ open_meteo_norm.daily = <<>> /\ open_meteo_norm.hourly = <<>>
        THEN Some("RuntimeError")
    ELSE None

\* what building the model objects raises: pydantic's ValidationError, a
\* ValueError, on a field a model class rejects; nothing else
validation_error(kma_norm, open_meteo_norm) ==
    IF ~(SourceValid(kma_norm) /\ SourceValid(open_meteo_norm))
        THEN Some("ValueError")
        ELSE None

\* models.py:84-88: PestBulletin.risk is one of four literals
RiskLevels == {"LOW", "MODERATE", "HIGH", "ALERT"}
BulletinsValid(bulletins) ==
    \A i \in DOMAIN bulletins : bulletins[i].risk \in RiskLevels

\* PestObservation(pest, metric, code, value: Optional[float], area, unit)
PestObservation(pest, metric, code, value, area, unit) ==
    [pest |-> pest, metric |-> metric, code |-> code, value |-> value,
     area |-> area, unit |-> unit]

\* aggregator.py:317-327: every entry of the payload becomes an observation
normalize_observations(entries) ==
    [i \in DOMAIN entries |->
        PestObservation(entries[i].pest, entries[i].metric, entries[i].code,
                        coerce_float(entries[i].value),
                        entries[i].area, entries[i].unit)]

\* data.get("provenance"): a string, or a list whose falsy items are dropped
normalize_pest_provenance(value) ==
    IF value.t = "str" THEN <<value.s>>
    ELSE IF value.t = "list" THEN SelectSeq(value.items, LAMBDA x : x # "")
    ELSE <<>>

normalize_bulletins(entries, now) ==
    [i \in DOMAIN entries |->
        [pest |-> entries[i].pest, risk |-> entries[i].risk,
         since |-> coerce_date(entries[i].since, now),
         summary |-> entries[i].summary]]

normalize_npms(data, crop, now) ==
    IF data = None
        THEN [crop |-> crop, bulletins |-> <<>>, observations |-> <<>>,
              provenance |-> <<>>]
        ELSE [crop |-> crop,
              bulletins |-> normalize_bulletins(data[1].bulletins, now),
              observations |-> normalize_observations(data[1].observations),
              provenance |-> normalize_pest_provenance(data[1].provenance)]

(***************************************************************************)
(* aggregator.py: _build_climate_section, _select_issued_at,               *)
(* _format_npms_text; pest_hints.py                                        *)
(***************************************************************************)
build_climate_section(kma_norm, open_meteo_norm, now) ==
    LET daily == build_daily(kma_norm.daily, open_meteo_norm.daily, now).horizon
        hourly == merge_hourly(HourlyRecords(kma_norm.hourly),
                               HourlyRecords(open_meteo_norm.hourly))
    IN  [horizon_days |-> IF daily # <<>> THEN Len(daily) - 1 ELSE 0,
         daily |-> daily,
         hourly |-> hourly,
         warnings |-> kma_norm.warnings,
         provenance |->
            (IF TruthyStr(kma_norm.provenance)
                THEN <<kma_norm.provenance[1]>> ELSE <<>>)
            \o (IF TruthyStr(open_meteo_norm.provenance)
                THEN <<open_meteo_norm.provenance[1]>> ELSE <<>>)]

\* the first candidate that is there
SelectFirstIssuedAt(candidates, now) ==
    LET there == {j \in DOMAIN candidates : candidates[j] # None}
    IN  IF there # {} THEN candidates[MinOf(there)][1] ELSE now

\* candidates: a sequence of Optional datetimes
select_issued_at(candidates, now) ==
    LET valid == {candidates[i][1] :
                    i \in {j \in DOMAIN candidates : candidates[j] # None}}
    IN  IF valid # {} THEN MaxOf(valid) ELSE now

\* region_code[:4] of the codes the model uses
Prefix4(code) ==
    CASE code = "47170" -> "4717"
      [] code = "47280" -> "4728"
      [] code = "41280" -> "4128"
      [] code = "50110" -> "5011"
      [] OTHER -> code

\* the text block: the header's area code and one line per observation,
\* or the single line "(none)"
format_npms_text(pest, region_code) ==
    [target_code |-> IF TruthyStr(region_code) THEN Prefix4(region_code[1])
                     ELSE "-",
     lines |-> IF pest.observations = <<>> THEN <<"(none)">>
               ELSE [i \in DOMAIN pest.observations |->
                        [idx |-> i,
                         pest |-> pest.observations[i].pest,
                         code |-> pest.observations[i].code,
                         value |-> pest.observations[i].value,
                         area |-> pest.observations[i].area]]]

\* pest_hints.py:9-10, the threshold in tenths
TARGET_METRIC_CODE == "SS0127"
PEACH_MOTH_THRESHOLD == 100

\* hints that look for the target code in the metric name
PestHintsByMetric(observations) ==
    LET qualifying == SelectSeq(observations,
            LAMBDA o : /\ o.metric = TARGET_METRIC_CODE
                       /\ o.value # None
                       /\ o.value[1] >= PEACH_MOTH_THRESHOLD)
    IN  [i \in DOMAIN qualifying |->
            [area |-> IF qualifying[i].area = "" THEN "Andong-si(ko)"
                      ELSE qualifying[i].area,
             value |-> qualifying[i].value[1]]]

\* hints for values above the threshold only
PestHintsStrictlyAbove(observations) ==
    LET qualifying == SelectSeq(observations,
            LAMBDA o : /\ o.code = TARGET_METRIC_CODE
                       /\ o.value # None
                       /\ o.value[1] > PEACH_MOTH_THRESHOLD)
    IN  [i \in DOMAIN qualifying |->
            [area |-> IF qualifying[i].area = "" THEN "Andong-si(ko)"
                      ELSE qualifying[i].area,
             value |-> qualifying[i].value[1]]]

\* one hint per qualifying observation: the area and the value it names
compute_pest_hints(observations) ==
    LET qualifying == SelectSeq(observations,
            LAMBDA o : /\ o.code = TARGET_METRIC_CODE
                       /\ o.value # None
                       /\ o.value[1] >= PEACH_MOTH_THRESHOLD)
    IN  [i \in DOMAIN qualifying |->
            [area |-> IF qualifying[i].area = "" THEN "Andong-si(ko)"
                      ELSE qualifying[i].area,
             value |-> qualifying[i].value[1]]]

(***************************************************************************)
(* soft_hints.py: compute_soft_hints                                       *)
(***************************************************************************)
\* thresholds in tenths: t_c >= 33.0, wind_ms >= 10.0, rh_pct >= 90
HEAT_THRESHOLD == 330
WIND_THRESHOLD == 100
WET_RH_THRESHOLD == 900
WET_NIGHT_MIN_HOURS == 3

\* `x or None` of an int
OrNone(n) == IF n = 0 THEN None ELSE Some(n)

RECURSIVE RainRunLoop(_, _, _, _)
RainRunLoop(daily, i, run, best) ==
    IF i > Len(daily) THEN best
    ELSE IF daily[i].precip_mm # None /\ daily[i].precip_mm[1] > 0
        THEN RainRunLoop(daily, i + 1, run + 1,
                         IF run + 1 > best THEN run + 1 ELSE best)
        ELSE RainRunLoop(daily, i + 1, 0, best)

\* the number of rain days, adjacent or not
RainDaysTotal(daily) ==
    OrNone(Cardinality({i \in DOMAIN daily :
        daily[i].precip_mm # None /\ daily[i].precip_mm[1] > 0}))

rain_run_max_days(daily) == OrNone(RainRunLoop(daily, 1, 0, 0))

count_hours(hourly, field, threshold) ==
    OrNone(Cardinality({i \in DOMAIN hourly :
        hourly[i][field] # None /\ hourly[i][field][1] >= threshold}))

\* the night an hourly record counts for: its own date from 21:00, the
\* previous date before 06:00, None for the hours 6..20
NightKey(ts) ==
    IF ts % 24 >= 21 THEN Some(ts \div 24)
    ELSE IF ts % 24 <= 5 THEN Some((ts - 24) \div 24)
    ELSE None

\* wet nights with every early hour counted for its own date
WetNightsByDate(hourly) ==
    LET wet == {i \in DOMAIN hourly :
                    /\ hourly[i].rh_pct # None
                    /\ hourly[i].rh_pct[1] >= WET_RH_THRESHOLD
                    /\ (hourly[i].ts % 24 >= 21 \/ hourly[i].ts % 24 <= 5)}
        nights == {hourly[i].ts \div 24 : i \in wet}
        freq(n) == Cardinality({i \in wet : hourly[i].ts \div 24 = n})
    IN  OrNone(Cardinality({n \in nights : freq(n) >= WET_NIGHT_MIN_HOURS}))

wet_nights(hourly) ==
    LET wet == {i \in DOMAIN hourly :
                    /\ hourly[i].rh_pct # None
                    /\ hourly[i].rh_pct[1] >= WET_RH_THRESHOLD
                    /\ NightKey(hourly[i].ts) # None}
        nights == {NightKey(hourly[i].ts)[1] : i \in wet}
        freq(n) == Cardinality({i \in wet : NightKey(hourly[i].ts)[1] = n})
    IN  OrNone(Cardinality({n \in nights : freq(n) >= WET_NIGHT_MIN_HOURS}))

diurnal_range_max(daily) ==
    LET ranges == {daily[i].tmax_c[1] - daily[i].tmin_c[1] :
                    i \in {j \in DOMAIN daily :
                            daily[j].tmax_c # None /\ daily[j].tmin_c # None}}
    IN  IF ranges = {} THEN None ELSE Some(MaxOf(ranges))

compute_soft_hints(daily, hourly, warnings) ==
    [rain_run_max_days |-> rain_run_max_days(daily),
     heat_hours_ge_33c |-> count_hours(hourly, "t_c", HEAT_THRESHOLD),
     wind_hours_ge_10ms |-> count_hours(hourly, "wind_ms", WIND_THRESHOLD),
     wet_nights_count |-> wet_nights(hourly),
     diurnal_range_max |-> diurnal_range_max(daily),
     first_warning_type |-> IF warnings # <<>> THEN Some(warnings[1].type)
                            ELSE None]

(***************************************************************************)
(* aggregator.py: the evidence pack (lines 58-84 and 108-136)              *)
(***************************************************************************)
\* the pack built from three payloads (each None or Some(dict)); raised is
\* the exception the model classes raise on a field they do not accept
build_pack(profile, region_code, kma_raw, om_raw, npms_raw, now) ==
    LET kma_norm == normalize_kma(kma_raw, now)
        om_norm == normalize_open_meteo(om_raw, now)
        npms_norm == normalize_npms(npms_raw, profile.crop, now)
    IN  IF validation_error(kma_norm, om_norm) # None
        THEN [raised |-> validation_error(kma_norm, om_norm), pack |-> None]
        ELSE LET climate == build_climate_section(kma_norm, om_norm, now)
             IN  [raised |-> None,
                  pack |-> Some(
                    [profile |-> profile,
                     issued_at |-> select_issued_at(
                        <<kma_norm.issued_at, om_norm.issued_at,
                          IF npms_raw # None
                            THEN coerce_datetime(npms_raw[1].issued_at)
                            ELSE None>>, now),
                     climate |-> climate,
                     pest |-> npms_norm,
                     text |-> format_npms_text(npms_norm, region_code),
                     pest_hints |-> compute_pest_hints(npms_norm.observations),
                     soft_hints |->
                        IF climate.daily # <<>> \/ climate.hourly # <<>>
                           \/ climate.warnings # <<>>
                        THEN Some(compute_soft_hints(climate.daily,
                                    climate.hourly, climate.warnings))
                        ELSE None])]

(***************************************************************************)
(* resolver.py: ProfileResolver                                            *)
(***************************************************************************)
ResolverRecord(lat, lon, kma_grid, kma_area_code, npms_region_code) ==
    [lat |-> lat, lon |-> lon, kma_grid |-> kma_grid,
     kma_area_code |-> kma_area_code, npms_region_code |-> npms_region_code]

\* resolver.py:25-47: the table ProfileResolver() builds, keyed by
\* <<region lower-cased, crop>>; lat and lon in thousandths of a degree
DefaultRecords ==
    (<<"gimcheon-si", "tomato">> :>
        ResolverRecord(36137, 128113, Some(<<83, 97>>), Some("11G00701"),
                       Some("47280")))
    @@ (<<"hwaseong-si", "rice">> :>
        ResolverRecord(37199, 126832, Some(<<55, 123>>), Some("11B20601"),
                       Some("41280")))
    @@ (<<"jeju-si", "lettuce">> :>
        ResolverRecord(33499, 126531, Some(<<52, 38>>), Some("11G00201"),
                       Some("50110")))

\* the table of a resolver handed to AggregationService(resolver=...): the
\* Andong-si apple profile of tests/test_aggregation_api.py:119-127, and an
\* apple profile for which demo.py holds no bundle
InjectedRecords ==
    (<<"andong-si", "apple">> :>
        ResolverRecord(36568, 128729, None, Some("11H10501"), Some("47170")))
    @@ (<<"gimcheon-si", "apple">> :>
        ResolverRecord(36137, 128113, Some(<<83, 97>>), Some("11G00701"),
                       Some("47280")))

\* str.lower() of the region names the model uses
Lower(region) ==
    CASE region = "Andong-si" -> "andong-si"
      [] region = "Gimcheon-si" -> "gimcheon-si"
      [] region = "Nonexistent-City" -> "nonexistent-city"
      [] OTHER -> region

\* a resolver that falls back to some record it has for an unknown pair
ResolveDefaulting(table, profile) ==
    IF <<Lower(profile.region), profile.crop>> \in DOMAIN table
        THEN Some(table[<<Lower(profile.region), profile.crop>>])
        ELSE Some(table[CHOOSE k \in DOMAIN table : TRUE])

\* ProfileResolver.resolve: Some(record), or None for the ValueError
resolve(table, profile) ==
    IF <<Lower(profile.region), profile.crop>> \in DOMAIN table
        THEN Some(table[<<Lower(profile.region), profile.crop>>])
        ELSE None

(***************************************************************************)
(* demo.py: the scripted bundle, day 0 = 2025-10-30, values in tenths      *)
(***************************************************************************)
DemoKmaDaily ==
    LET summary == <<"clear", "clear / mostly cloudy", "mostly cloudy",
                     "overcast", "overcast and rain", "mostly cloudy", "clear">>
        pop == <<100, 200, 300, 400, 600, 300, 100>>
    IN  [i \in 1..7 |->
            RawDaily(RawDate(i + 2), RawNull, RawNull, RawNull, RawNull,
                     RawStr(summary[i]), RawNum(pop[i]))]

DemoOmDaily ==
    LET tmax == <<215, 221, 210, 204, 198, 186, 172, 188, 195, 203, 210>>
        tmin == <<82, 90, 85, 78, 69, 65, 59, 67, 71, 75, 80>>
        precip == <<0, 0, 4, 0, 0, 12, 30, 6, 0, 0, 0>>
        wind == <<28, 31, 25, 29, 27, 24, 30, 26, 23, 21, 24>>
    IN  [i \in 1..11 |->
            RawDaily(RawDate(i - 1), RawNum(tmax[i]), RawNum(tmin[i]),
                     RawNum(precip[i]), RawNum(wind[i]), RawNull, RawNull)]

DemoOmHourly ==
    LET temps == <<120, 125, 134, 150, 172, 191, 205, 213, 208, 189, 164, 142>>
        rhs == <<800, 780, 750, 680, 600, 550, 520, 500, 540, 620, 700, 780>>
        winds == <<24, 26, 28, 30, 31, 32, 33, 32, 30, 28, 26, 24>>
    IN  [i \in 1..12 |->
            RawHourly(RawTs(5 + i, "kst"), RawNum(temps[i]), RawNum(rhs[i]),
                      RawNum(winds[i]), RawNum(winds[i] + 6), RawNum(0),
                      RawNum(IF 9 <= 5 + i /\ 5 + i <= 15 THEN 4000 ELSE 500))]

RawObservation(pest, metric, code, value, area) ==
    [pest |-> pest, metric |-> metric, code |-> code, value |-> value,
     area |-> area, unit |-> None]

DemoBundle ==
    [kma |-> [issued_at |-> RawTs(6, "kst"), daily |-> DemoKmaDaily,
              hourly |-> <<>>, warnings |-> <<>>,
              provenance |-> RawStr("KMA(2025-10-30)")],
     open_meteo |-> [issued_at |-> RawTs(5, "kst"), daily |-> DemoOmDaily,
                     hourly |-> DemoOmHourly,
                     provenance |-> RawStr("Open-Meteo(2025-10-30)")],
     npms |-> [issued_at |-> RawTs(-18, "kst"),
               bulletins |->
                <<[pest |-> "marssonina blotch", risk |-> "MODERATE",
                   since |-> RawDate(-2), summary |-> "spray after rain"],
                  [pest |-> "anthracnose", risk |-> "LOW",
                   since |-> RawDate(-5), summary |-> "inspect flower buds"]>>,
               observations |->
                <<RawObservation("apple leafminer", "per trap", "SS0128",
                                 RawNum(924), "Andong-si(ko)"),
                  RawObservation("marssonina blotch", "diseased leaf rate",
                                 "SS0101", RawNum(0), "Andong-si(ko)")>>,
               provenance |-> [t |-> "list",
                               items |-> <<"NPMS(2025-10-29)",
                                           "NPMS-SVC53(2025-10-29)">>]]]

\* DEMO_BUNDLES.get((region.lower(), crop))
get_demo_bundle(region, crop) ==
    IF <<Lower(region), crop>> = <<"andong-si", "apple">>
        THEN Some(DemoBundle) ELSE None

(***************************************************************************)
(* What the fetchers hand to aggregate                                     *)
(***************************************************************************)
KmaPayload ==
    [issued_at |-> RawTs(6, "kst"),
     daily |-> <<RawDaily(RawDate(1), RawNull, RawNull, RawNull, RawNull,
                          RawStr("clear"), RawNum(100)),
                 RawDaily(RawDate(4), RawNum(190), RawNum(70), RawNull,
                          RawNull, RawStr("rain"), RawNum(600))>>,
     hourly |-> <<RawHourly(RawTs(1, "kst"), RawNum(55), RawNum(700),
                            RawNum(20), RawNull, RawNum(0), RawNull),
                  RawHourly(RawTs(-7, "utc"), RawNum(52), RawNum(720),
                            RawNum(22), RawNull, RawNum(0), RawNull)>>,
     warnings |-> <<>>,
     provenance |-> RawStr("KMA(2025-01-01)")]

\* the same with one warning in force
KmaPayloadWarning ==
    [KmaPayload EXCEPT
        !.warnings = <<[type |-> RawStr("WIND"), level |-> RawStr("WATCH"),
                        area |-> RawStr("Andong"), from |-> RawTs(3, "kst"),
                        to |-> RawTs(20, "kst")]>>]

\* what KmaFetcher.fetch returns when only a mid-term call got an answer and
\* its record carries no forecast field: no day, no hour, the provenance set
KmaPayloadBlank ==
    [issued_at |-> RawTs(6, "kst"), daily |-> <<>>, hourly |-> <<>>,
     warnings |-> <<>>, provenance |-> RawStr("KMA(2025-01-01)")]

\* tests/test_aggregation_api.py:54-89
OpenMeteoPayload ==
    [issued_at |-> RawTs(0, "kst"),
     daily |-> <<RawDaily(RawDate(0), RawNum(180), RawNum(50), RawNum(0),
                          RawNum(30), RawNull, RawNull),
                 RawDaily(RawDate(1), RawNum(175), RawNum(45), RawNum(6),
                          RawNum(28), RawNull, RawNull)>>,
     hourly |-> <<RawHourly(RawTs(0, "kst"), RawNum(60), RawNum(650),
                            RawNum(24), RawNull, RawNum(0), RawNull),
                  RawHourly(RawTs(1, "kst"), RawNum(58), RawNum(670),
                            RawNum(26), RawNull, RawNum(0), RawNull)>>,
     provenance |-> RawStr("Open-Meteo(2025-01-01)")]

\* the same issued at 00:00 UTC, 09:00 in Seoul
OpenMeteoPayloadUtc == [OpenMeteoPayload EXCEPT !.issued_at = RawTs(0, "utc")]

\* tests/test_aggregation_api.py:91-96: bulletins only
NpmsPayloadBulletins ==
    [issued_at |-> RawTs(-24, "kst"), bulletins |-> <<>>,
     observations |-> <<>>, provenance |-> RawStr("NPMS(2024-12-31)")]

\* one trap count of the target metric, 11.0
NpmsPayloadMoth ==
    [issued_at |-> RawTs(-24, "kst"), bulletins |-> <<>>,
     observations |-> <<RawObservation("oriental fruit moth", "per trap",
                                       "SS0127", RawNum(110), "Andong-si(ko)")>>,
     provenance |-> [t |-> "list", items |-> <<"NPMS-SVC53(2024-12-31)">>]]

\* a payload that still carries a zero reading and a reading without value
NpmsPayloadZero ==
    [issued_at |-> RawTs(-24, "kst"), bulletins |-> <<>>,
     observations |-> <<RawObservation("oriental fruit moth", "per trap",
                                       "SS0127", RawNum(0), "Andong-si(ko)"),
                        RawObservation("apple leafminer", "per trap",
                                       "SS0128", RawNull, "Andong-si(ko)")>>,
     provenance |-> [t |-> "list", items |-> <<"NPMS-SVC53(2024-12-31)">>]]

\* a payload without "issued_at"
NpmsPayloadNoIssue == [NpmsPayloadBulletins EXCEPT !.issued_at = RawNull]

\* what a fetch task ends with: None, an exception, or a payload dict
TaskNone == [kind |-> "none"]
TaskRaised == [kind |-> "exc"]
TaskDict(data) == [kind |-> "dict", data |-> data]
TaskPending == [kind |-> "pending"]
TaskIdle == [kind |-> "idle"]

KmaResults ==
    {TaskNone, TaskRaised, TaskDict(KmaPayload), TaskDict(KmaPayloadWarning),
     TaskDict(KmaPayloadBlank)}
OpenMeteoResults ==
    {TaskNone, TaskRaised, TaskDict(OpenMeteoPayload),
     TaskDict(OpenMeteoPayloadUtc)}
NpmsResults ==
    {TaskNone, TaskRaised, TaskDict(NpmsPayloadBulletins),
     TaskDict(NpmsPayloadMoth), TaskDict(NpmsPayloadZero),
     TaskDict(NpmsPayloadNoIssue)}

\* aggregator.py:98-110: an exception or a non-dict result counts as None
AsDict(result) == IF result.kind = "dict" THEN Some(result.data) ELSE None

Regions == {"Andong-si", "andong-si", "Gimcheon-si", "Nonexistent-City"}
\* AggregateProfile.crop is Literal["apple"]
Crops == {"apple"}
\* datetime.now(tz=KST), in hours
Nows == {30, 54}

NoRequest == [region |-> "", crop |-> "", stage |-> "", demo |-> FALSE]
NoResponse == [status |-> 0, raised |-> None, pack |-> None]
NoTasks == [kma |-> TaskIdle, om |-> TaskIdle, npms |-> TaskIdle]
NoCalls == [kma |-> 0, om |-> 0, npms |-> 0]

ProfileOf(r) == [region |-> r.region, crop |-> r.crop, stage |-> r.stage]

\* routes/aggregate.py:45-96: the status the endpoint answers with
endpoint_status(raised) ==
    IF raised = None THEN 200
    ELSE IF raised[1] = "ValueError" THEN 400
    ELSE IF raised[1] = "NotImplementedError" THEN 501
    ELSE IF raised[1] = "RuntimeError" THEN 503
    ELSE 500

Respond(result) ==
    [status |-> endpoint_status(result.raised), raised |-> result.raised,
     pack |-> result.pack]

(***************************************************************************)
(* fetchers.py: BaseFetcher, the cache and the upstream responses          *)
(***************************************************************************)
\* f"{value:.3f}" of a coordinate given in ten-thousandths of a degree,
\* as thousandths (no input of the model ends in 5)
Format3(value) == (value + 5) \div 10

\* a key that tells regions apart
CacheKeyWithRegion(resolved) ==
    [crop |-> resolved.crop, lat |-> Format3(resolved.lat),
     lon |-> Format3(resolved.lon), region |-> resolved.region]

\* BaseFetcher._cache_key
cache_key(resolved) ==
    [crop |-> resolved.crop, lat |-> Format3(resolved.lat),
     lon |-> Format3(resolved.lon)]

\* `key in self._cache`, `self._cache[key]`, `self._cache[key] = payload`
CacheHas(entries, key) == \E e \in entries : e.key = key
CacheGet(entries, key) == (CHOOSE e \in entries : e.key = key).payload
CachePut(entries, key, payload) ==
    {e \in entries : e.key # key} \cup {[key |-> key, payload |-> payload]}

\* date.isoformat() of the days the model uses, day 0 = 2025-01-01
IsoDate(d) ==
    CASE d = 0 -> "2025-01-01"
      [] d = -1 -> "2024-12-31"
      [] d = -2 -> "2024-12-30"
      [] d = -3 -> "2024-12-29"
      [] OTHER -> "2025-01-02"

\* what one GET can come to.  transport: httpx.TransportError, a timeout
\* included; status: raise_for_status() on a non-2xx answer; nonjson:
\* response.json() raises ValueError; list: the body is a JSON list; nested:
\* the body is a dict whose first nested block is not a dict; empty: a
\* well-formed body without usable records; blank: records none of whose
\* fields are usable; ok: records with data
HttpFailures == {"transport", "status", "nonjson"}
Malformed == {"list", "nested"}
KmaResponses == HttpFailures \cup Malformed \cup {"empty", "blank", "ok"}

\* datetime.now(tz=KST) of the fetchers: day 0, shortly after 06:00
FetchNow == 6

MaxCandidates == 2

\* KmaFetcher._candidate_tmfc: the 06:00 and 18:00 issues, latest first
candidate_tmfc == [k \in 1..MaxCandidates |-> FetchNow - 12 * (k - 1)]

(***************************************************************************)
(* fetchers.py: KmaFetcher                                                 *)
(***************************************************************************)
\* _parse_mid_land of a body with record fields: days 4 and 5 carry a
\* forecast text and a rain chance; a blank record gives no day at all
parse_mid_land(body, tmfc) ==
    [issued_at |-> RawTs(tmfc, "kst"),
     daily |-> IF body = "blank" THEN <<>>
               ELSE [i \in 1..2 |->
                        RawDaily(RawDate((tmfc + 24 * (i + 2)) \div 24),
                                 RawNull, RawNull, RawNull, RawNull,
                                 RawStr("clear"), RawNum(150))],
     hourly |-> <<>>,
     warnings |-> <<>>,
     provenance |-> RawStr("KMA-MidLand(" \o IsoDate(tmfc \div 24) \o ")")]

\* _parse_mid_ta: days 5 and 6 carry taMin / taMax
parse_mid_ta(body, tmfc) ==
    [issued_at |-> RawTs(tmfc, "kst"),
     daily |-> IF body = "blank" THEN <<>>
               ELSE [i \in 1..2 |->
                        RawDaily(RawDate((tmfc + 24 * (i + 3)) \div 24),
                                 RawNum(180 + i), RawNum(60 + i), RawNull,
                                 RawNull, RawNull, RawNull)],
     hourly |-> <<>>,
     warnings |-> <<>>,
     provenance |-> RawStr("KMA-MidTa(" \o IsoDate(tmfc \div 24) \o ")")]

\* _parse_short: two forecast hours after the 05:00 issue; records without
\* fcstDate, fcstTime or category give no hour at all
parse_short(body, base) ==
    [issued_at |-> RawTs(base, "kst"),
     daily |-> <<>>,
     hourly |-> IF body = "blank" THEN <<>>
                ELSE [i \in 1..2 |->
                        RawHourly(RawTs(base + i, "kst"), RawNum(50 + i),
                                  RawNum(700), RawNum(20), RawNull, RawNum(0),
                                  RawNull)],
     warnings |-> <<>>,
     provenance |-> RawStr("KMA-Short(" \o IsoDate(base \div 24) \o ")")]

\* the candidate loop of _fetch_mid_land / _fetch_mid_ta: [result, gets],
\* gets the number of GET requests sent
RECURSIVE MidLoop(_, _, _)
MidLoop(which, k, bodies) ==
    IF k > Len(candidate_tmfc) THEN [result |-> TaskNone, gets |-> k - 1]
    ELSE IF bodies[k] \in HttpFailures \cup {"nested", "empty"}
        THEN MidLoop(which, k + 1, bodies)
    ELSE IF bodies[k] = "list"
        THEN [result |-> TaskRaised, gets |-> k]
    ELSE [result |-> TaskDict(IF which = "mid_land"
                        THEN parse_mid_land(bodies[k], candidate_tmfc[k])
                        ELSE parse_mid_ta(bodies[k], candidate_tmfc[k])),
          gets |-> k]

\* _fetch_mid_land, _fetch_mid_ta
fetch_mid(which, resolved, bodies) ==
    IF resolved.kma_area_code = None THEN [result |-> TaskNone, gets |-> 0]
    ELSE MidLoop(which, 1, bodies)

\* _fetch_short: one request, for the latest issue not after now (05:00)
fetch_short(resolved, body) ==
    IF resolved.kma_grid = None THEN [result |-> TaskNone, gets |-> 0]
    ELSE IF body \in HttpFailures \cup {"nested", "empty"}
        THEN [result |-> TaskNone, gets |-> 1]
    ELSE IF body = "list" THEN [result |-> TaskRaised, gets |-> 1]
    ELSE [result |-> TaskDict(parse_short(body, FetchNow - 1)),
          gets |-> 1]

\* daily_map of _merge_kma_data as the list sorted by date: the mid_land
\* entries, a mid_ta entry adding its temperatures to the entry of its date
\* or standing for itself
RECURSIVE MergeKmaDaily(_, _, _)
MergeKmaDaily(days, land, ta) ==
    IF days = {} THEN <<>>
    ELSE LET d == MinOf(days)
             li == DailyGet([i \in DOMAIN land |->
                                [date |-> land[i].date.d]], d)
             ti == DailyGet([i \in DOMAIN ta |-> [date |-> ta[i].date.d]], d)
             entry == IF li # 0 /\ ti # 0
                        THEN [land[li] EXCEPT !.tmin_c = ta[ti].tmin_c,
                                              !.tmax_c = ta[ti].tmax_c]
                      ELSE IF li # 0 THEN land[li]
                      ELSE ta[ti]
         IN  <<entry>> \o MergeKmaDaily(days \ {d}, land, ta)

\* KmaFetcher._merge_kma_data; each argument None or Some(dict)
merge_kma_data(mid_land, mid_ta, short) ==
    LET issued == {x[1].issued_at.h : x \in {mid_land, mid_ta, short} \ {None}}
        issued_at == IF issued # {} THEN MaxOf(issued) ELSE FetchNow
        land == IF mid_land # None THEN mid_land[1].daily ELSE <<>>
        ta == IF mid_ta # None THEN mid_ta[1].daily ELSE <<>>
        days == {land[i].date.d : i \in DOMAIN land}
                \cup {ta[i].date.d : i \in DOMAIN ta}
    IN  [issued_at |-> RawTs(issued_at, "kst"),
         daily |-> MergeKmaDaily(days, land, ta),
         hourly |-> IF short # None THEN short[1].hourly ELSE <<>>,
         warnings |-> <<>>,
         provenance |-> RawStr("KMA(" \o IsoDate(issued_at \div 24) \o ")")]

(***************************************************************************)
(* fetchers.py: OpenMeteoFetcher                                           *)
(***************************************************************************)
OpenMeteoResponses == KmaResponses

\* wind_kmh / 3.6, in tenths
KmhToMs(kmh) == (kmh * 10) \div 36

\* _parse_open_meteo of a body whose "daily" and "hourly" blocks are dicts
\* with a non-empty "time" list: an entry per time that fromisoformat reads
\* (none in a blank body), wind converted from km/h
parse_open_meteo(body) ==
    [issued_at |-> RawTs(FetchNow, "kst"),
     daily |-> IF body = "blank" THEN <<>>
               ELSE [i \in 1..2 |->
                        RawDaily(RawDate(FetchNow \div 24 + i - 1),
                                 RawNum(250 + i), RawNum(170 + i), RawNum(42),
                                 RawNum(KmhToMs(180)), RawNull, RawNull)],
     hourly |-> IF body = "blank" THEN <<>>
                ELSE [i \in 1..2 |->
                        RawHourly(RawTs(i - 1, "kst"), RawNum(200 + i),
                                  RawNum(600), RawNum(KmhToMs(100)),
                                  RawNum(KmhToMs(150)), RawNum(5),
                                  RawNum(5000))],
     provenance |->
        RawStr("Open-Meteo(" \o IsoDate(FetchNow \div 24) \o ")")]

\* OpenMeteoFetcher.fetch after the cache miss: the GET and what its answer
\* comes to.  payload.get on a list and daily_block.get on a non-dict raise
\* AttributeError outside every try block of fetch
open_meteo_fetch(body) ==
    IF body \in HttpFailures \cup {"empty"} THEN TaskNone
    ELSE IF body \in Malformed THEN TaskRaised
    ELSE TaskDict(parse_open_meteo(body))

(***************************************************************************)
(* fetchers.py: NpmsFetcher                                                *)
(***************************************************************************)
\* SVC31 and SVC53 answers, and the SVC51 answers, which add a top-level
\* empty list ("emptylist") and entries without insectKey ("nokey")
NpmsResponses == KmaResponses
LookupResponses == HttpFailures \cup Malformed \cup {"emptylist", "empty", "nokey", "ok"}

RawList(items) == [t |-> "list", items |-> items]

Get(svc, body) == [svc |-> svc, body |-> body, insectKey |-> ""]
Get53(body, insect_key) == [svc |-> "SVC53", body |-> body, insectKey |-> insect_key]

\* _fetch_bulletins: [result, http]; a blank body lists models of other
\* crops only
fetch_bulletins(body) ==
    [http |-> <<Get("SVC31", body)>>,
     result |->
        IF body \in HttpFailures \cup {"empty"} THEN TaskNone
        ELSE IF body \in Malformed THEN TaskRaised
        ELSE TaskDict(
            [issued_at |-> RawTs(FetchNow, "kst"),
             bulletins |->
                IF body = "blank" THEN <<>>
                ELSE <<[pest |-> "marssonina blotch", risk |-> "HIGH",
                        since |-> RawDate(-2), summary |-> "spray after rain"]>>,
             provenance |->
                RawStr("NPMS-SVC31(" \o IsoDate(FetchNow \div 24) \o ")")])]

\* a lookup that knows no default identifier
LookupWithoutFallback(default_insect_key, body) ==
    [http |-> <<Get("SVC51", body)>>,
     result |->
        IF body \in Malformed THEN TaskRaised
        ELSE IF body = "ok" THEN TaskDict("looked-up")
        ELSE TaskNone]

\* _lookup_insect_key: [result, http], the result Some(key), None or raised
lookup_insect_key(default_insect_key, body) ==
    [http |-> <<Get("SVC51", body)>>,
     result |->
        IF body \in Malformed THEN TaskRaised
        ELSE IF body = "ok" THEN TaskDict("looked-up")
        ELSE IF default_insect_key THEN TaskDict("default")
        ELSE TaskNone]

\* _parse_npms_observations: a blank body holds other regions and zero
\* values only
parse_npms_observations(body) ==
    IF body \in {"empty", "blank"} THEN TaskNone
    ELSE TaskDict(
        [issued_at |-> RawTs(FetchNow, "kst"),
         observations |->
            <<RawObservation("peach fruit moth", "trap catch", "SS0127",
                             RawNum(124), "Andong-si")>>,
         provenance |->
            RawStr("NPMS-SVC53(" \o IsoDate(FetchNow \div 24) \o ")")])

\* _fetch_observations: [result, http]
fetch_observations(resolved, default_insect_key, lookup_body, body) ==
    IF resolved.npms_region_code = None
        THEN [http |-> <<>>, result |-> TaskNone]
    ELSE LET lookup == lookup_insect_key(default_insect_key, lookup_body)
         IN  IF lookup.result.kind # "dict" THEN lookup
             ELSE [http |-> lookup.http \o <<Get53(body, lookup.result.data)>>,
                   result |->
                      IF body \in HttpFailures THEN TaskNone
                      ELSE IF body \in Malformed THEN TaskRaised
                      ELSE parse_npms_observations(body)]

\* NpmsFetcher.fetch after the cache miss and the api key check
npms_fetch(resolved, default_insect_key, b31, b51, b53) ==
    LET bulletins == fetch_bulletins(b31)
        observations ==
            fetch_observations(resolved, default_insect_key, b51, b53)
    IN  IF bulletins.result = TaskRaised THEN bulletins
        ELSE IF observations.result = TaskRaised
            THEN [http |-> bulletins.http \o observations.http,
                  result |-> TaskRaised]
        ELSE [http |-> bulletins.http \o observations.http,
              result |->
                IF bulletins.result = TaskNone /\ observations.result = TaskNone
                    THEN TaskNone
                ELSE TaskDict(
                    [issued_at |-> RawTs(FetchNow, "kst"),
                     crop |-> resolved.crop,
                     bulletins |->
                        IF bulletins.result = TaskNone THEN <<>>
                        ELSE bulletins.result.data.bulletins,
                     observations |->
                        IF observations.result = TaskNone THEN <<>>
                        ELSE observations.result.data.observations,
                     provenance |->
                        RawList((IF bulletins.result = TaskNone THEN <<>>
                                 ELSE <<bulletins.result.data.provenance.s>>)
                             \o (IF observations.result = TaskNone THEN <<>>
                                 ELSE <<observations.result.data.provenance.s>>))])]

(***************************************************************************)
(* AggregationService.aggregate behind POST /api/aggregate                 *)
(***************************************************************************)
AggIdle ==
    /\ pc = "idle"
    /\ req = NoRequest
    /\ tasks = NoTasks
    /\ calls = NoCalls
    /\ response = NoResponse

DailyIdle ==
    /\ kmaDaily = <<>>
    /\ omDailyIn = <<>>
    /\ omDaily = <<>>
    /\ dailyOut = <<>>
    /\ dpc = "off"

HourlyIdle ==
    /\ kmaHourly = <<>>
    /\ omHourly = <<>>
    /\ hourlyOut = <<>>
    /\ hpc = "off"

NoProfile ==
    [region |-> "", crop |-> "", stage |-> "", lat |-> 0, lon |-> 0,
     kma_grid |-> None, kma_area_code |-> None, npms_region_code |-> None]
NoSubcall == [result |-> TaskIdle, gets |-> 0]
NoSubcalls == [mid_land |-> NoSubcall, mid_ta |-> NoSubcall, short |-> NoSubcall]

FetchIdle ==
    /\ fetcher = [who |-> "", api_key |-> FALSE, default_insect_key |-> FALSE,
                  calls |-> 0]
    /\ cache = {}
    /\ fpc = "off"
    /\ fcall = NoProfile
    /\ sub = NoSubcalls
    /\ http = <<>>
    /\ fresult = TaskIdle

NoCall == [kind |-> "idle"]

CallIdle ==
    /\ fn = ""
    /\ arg = NoCall
    /\ ret = NoCall

MaxCallers == 4
Callers == 1..MaxCallers

ClientIdle ==
    /\ client = 0
    /\ built = 0
    /\ lock = 0
    /\ gpc = [c \in Callers |-> "off"]
    /\ got = [c \in Callers |-> 0]

ProfileIds == {"+821011110000", "+821022220000"}

\* MemoryStore() (memory_store.py:37-43); latest holds the profiles that have
\* a latest brief
EmptyStore ==
    [opt_out |-> {}, pending |-> {}, profiles |-> [p \in ProfileIds |-> None],
     latest |-> {}]

NoInbound == [op |-> "", id |-> "", message |-> <<>>]

KwIdle ==
    /\ store = EmptyStore
    /\ inbound = NoInbound
    /\ reply = ""

\* the service as constructed: AggregationService() or
\* AggregationService(resolver=...)
Init ==
    /\ records \in {DefaultRecords, InjectedRecords}
    /\ AggIdle
    /\ DailyIdle
    /\ HourlyIdle
    /\ FetchIdle
    /\ CallIdle
    /\ ClientIdle
    /\ KwIdle

\* aggregator.py:49-89: resolve, then the demo pack or the three fetch tasks
Aggregate(region, crop, demo, now) ==
    /\ pc = "idle"
    /\ LET r == [region |-> region, crop |-> crop, stage |-> "flowering",
                 demo |-> demo]
           resolved == resolve(records, ProfileOf(r))
           bundle == get_demo_bundle(region, crop)
       IN  /\ req' = r
           /\ IF resolved = None
              THEN /\ response' = Respond([raised |-> Some("ValueError"),
                                           pack |-> None])
                   /\ pc' = "done"
                   /\ UNCHANGED <<tasks, calls>>
              ELSE IF demo
              THEN /\ response' =
                        IF bundle = None
                        THEN Respond([raised |-> Some("ValueError"),
                                      pack |-> None])
                        ELSE Respond(build_pack(ProfileOf(r),
                                resolved[1].npms_region_code,
                                Some(bundle[1].kma), Some(bundle[1].open_meteo),
                                Some(bundle[1].npms), now))
                   /\ pc' = "done"
                   /\ UNCHANGED <<tasks, calls>>
              ELSE /\ tasks' = [kma |-> TaskPending, om |-> TaskPending,
                                npms |-> TaskPending]
                   /\ calls' = [kma |-> calls.kma + 1, om |-> calls.om + 1,
                                npms |-> calls.npms + 1]
                   /\ pc' = "fetching"
                   /\ UNCHANGED response
    /\ UNCHANGED <<records, dailyVars, hourlyVars, fetchVars, callVars, clientVars, kwVars>>

\* a fetch task ends, in any order with the other two
KmaFetchReturns(result) ==
    /\ pc = "fetching"
    /\ tasks.kma.kind = "pending"
    /\ tasks' = [tasks EXCEPT !.kma = result]
    /\ UNCHANGED <<records, pc, req, calls, response, dailyVars, hourlyVars,
                   fetchVars, callVars, clientVars, kwVars>>

OpenMeteoFetchReturns(result) ==
    /\ pc = "fetching"
    /\ tasks.om.kind = "pending"
    /\ tasks' = [tasks EXCEPT !.om = result]
    /\ UNCHANGED <<records, pc, req, calls, response, dailyVars, hourlyVars,
                   fetchVars, callVars, clientVars, kwVars>>

NpmsFetchReturns(result) ==
    /\ pc = "fetching"
    /\ tasks.npms.kind = "pending"
    /\ tasks' = [tasks EXCEPT !.npms = result]
    /\ UNCHANGED <<records, pc, req, calls, response, dailyVars, hourlyVars,
                   fetchVars, callVars, clientVars, kwVars>>

\* a gather without return_exceptions: the first exception of a task leaves
\* aggregate at once, and the endpoint answers 500
GatherFailFast(now) ==
    /\ pc = "fetching"
    /\ \/ \E f \in {"kma", "om", "npms"} : tasks[f].kind = "exc"
       \/ \A f \in {"kma", "om", "npms"} :
            tasks[f].kind \notin {"pending", "idle"}
    /\ response' =
        IF \E f \in {"kma", "om", "npms"} : tasks[f].kind = "exc"
        THEN Respond([raised |-> Some("Exception"), pack |-> None])
        ELSE Respond(build_pack(ProfileOf(req),
                        resolve(records, ProfileOf(req))[1].npms_region_code,
                        AsDict(tasks.kma), AsDict(tasks.om), AsDict(tasks.npms),
                        now))
    /\ pc' = "done"
    /\ UNCHANGED <<records, req, tasks, calls, dailyVars, hourlyVars, fetchVars, callVars, clientVars, kwVars>>

\* aggregator.py:91-136: gather returns once all three tasks have ended
Gather(now) ==
    /\ pc = "fetching"
    /\ \A f \in {"kma", "om", "npms"} : tasks[f].kind \notin {"pending", "idle"}
    /\ response' = Respond(build_pack(ProfileOf(req),
                        resolve(records, ProfileOf(req))[1].npms_region_code,
                        AsDict(tasks.kma), AsDict(tasks.om), AsDict(tasks.npms),
                        now))
    /\ pc' = "done"
    /\ UNCHANGED <<records, req, tasks, calls, dailyVars, hourlyVars, fetchVars, callVars, clientVars, kwVars>>

\* the response is sent; the service waits for the next request
Finish ==
    /\ pc = "done"
    /\ pc' = "idle"
    /\ req' = NoRequest
    /\ tasks' = NoTasks
    /\ calls' = NoCalls
    /\ response' = NoResponse
    /\ UNCHANGED <<records, dailyVars, hourlyVars, fetchVars, callVars, clientVars, kwVars>>

Next ==
    \/ \E region \in Regions, crop \in Crops, demo \in BOOLEAN, now \in Nows :
            Aggregate(region, crop, demo, now)
    \/ \E result \in KmaResults : KmaFetchReturns(result)
    \/ \E result \in OpenMeteoResults : OpenMeteoFetchReturns(result)
    \/ \E result \in NpmsResults : NpmsFetchReturns(result)
    \/ \E now \in Nows : Gather(now)
    \/ Finish

Spec == Init /\ [][Next]_vars

(***************************************************************************)
(* The daily merge on its own                                              *)
(***************************************************************************)
InitDaily ==
    /\ records = DefaultRecords
    /\ AggIdle
    /\ HourlyIdle
    /\ FetchIdle
    /\ CallIdle
    /\ ClientIdle
    /\ KwIdle
    /\ \E in \in DailyInputs :
        /\ kmaDaily = normalize_daily(in[1], "kma", 0)
        /\ omDailyIn = normalize_daily(in[2], "open-meteo", 0)
    /\ omDaily = omDailyIn
    /\ dailyOut = <<>>
    /\ dpc = "ready"

\* aggregator.py:152-156 on the two normalized series, at the instant now;
\* the Open-Meteo objects are updated in place.  A second call is handed the
\* same two lists, as the first call left them.
MergeDaily(now) ==
    /\ dpc \in {"ready", "merged"}
    /\ LET r == build_daily(kmaDaily, omDaily, now)
       IN  /\ dailyOut' = r.horizon
           /\ omDaily' = r.om
    /\ dpc' = IF dpc = "ready" THEN "merged" ELSE "again"
    /\ UNCHANGED <<kmaDaily, omDailyIn, aggVars, hourlyVars, fetchVars, callVars, clientVars, kwVars>>

NextDaily == \E now \in Nows : MergeDaily(now)

SpecDaily == InitDaily /\ [][NextDaily]_vars

(***************************************************************************)
(* The hourly merge on its own                                             *)
(***************************************************************************)
InitHourly ==
    /\ records = DefaultRecords
    /\ AggIdle
    /\ DailyIdle
    /\ FetchIdle
    /\ CallIdle
    /\ ClientIdle
    /\ KwIdle
    /\ \E in \in HourlyInputs :
        /\ kmaHourly = HourlyRecords(normalize_hourly(in[1], "kma"))
        /\ omHourly = HourlyRecords(normalize_hourly(in[2], "open-meteo"))
    /\ hourlyOut = <<>>
    /\ hpc = "ready"

MergeHourly ==
    /\ hpc = "ready"
    /\ hourlyOut' = merge_hourly(kmaHourly, omHourly)
    /\ hpc' = "merged"
    /\ UNCHANGED <<kmaHourly, omHourly, aggVars, dailyVars, fetchVars, callVars, clientVars, kwVars>>

NextHourly == MergeHourly

SpecHourly == InitHourly /\ [][NextHourly]_vars

(***************************************************************************)
(* One fetcher object serving fetch() calls                                *)
(***************************************************************************)
MaxFetches == 2

\* the resolved profiles handed to fetch(); coordinates in ten-thousandths
\* of a degree.  The first is the profile of tests/test_fetchers.py, the
\* second falls on the same three-decimal coordinates as the first
FetchProfile(region, stage, lat, lon, grid, area, npms) ==
    [region |-> region, crop |-> "apple", stage |-> stage, lat |-> lat,
     lon |-> lon, kma_grid |-> grid, kma_area_code |-> area,
     npms_region_code |-> npms]

FetchProfiles ==
    {FetchProfile("Andong-si", "flowering", 365680, 1287290,
                  None, Some("11H10501"), Some("47170")),
     FetchProfile("Yecheon-gun", "harvest", 365684, 1287291,
                  Some("83,97"), None, None),
     FetchProfile("Andong-si", "flowering", 365696, 1287290,
                  Some("91,106"), Some("11H10501"), Some("47170")),
     FetchProfile("Andong-si", "flowering", 361370, 1281130,
                  None, None, Some("47170"))}

\* KmaFetcher(auth_key), OpenMeteoFetcher(), NpmsFetcher(api_key) with
\* NPMS_DEFAULT_INSECT_KEY left alone or set to ""
Fetchers ==
    {[who |-> "kma", api_key |-> k, default_insect_key |-> FALSE, calls |-> 0] :
        k \in BOOLEAN}
    \cup {[who |-> "om", api_key |-> FALSE, default_insect_key |-> FALSE,
           calls |-> 0]}
    \cup {[who |-> "npms", api_key |-> k, default_insect_key |-> d, calls |-> 0] :
            k \in BOOLEAN, d \in BOOLEAN}

\* tests/test_aggregation_api.py:129-131: a payload put into the cache
\* under the key of the first profile
SeededPayload == [issued_at |-> RawTs(0, "kst")]
SeededKey == [crop |-> "apple", lat |-> 36568, lon |-> 128729]

InitFetch ==
    /\ records = DefaultRecords
    /\ AggIdle
    /\ DailyIdle
    /\ HourlyIdle
    /\ fetcher \in Fetchers
    /\ cache \in {{}, {[key |-> SeededKey, payload |-> SeededPayload]}}
    /\ fpc = "idle"
    /\ fcall = NoProfile
    /\ sub = NoSubcalls
    /\ http = <<>>
    /\ fresult = TaskIdle
    /\ CallIdle
    /\ ClientIdle
    /\ KwIdle

Pending == [result |-> [kind |-> "pending"], gets |-> 0]

\* fetchers.py:74-82: an exception object becomes None; Some(dict) otherwise
SubResult(task) == IF task.kind = "dict" THEN Some(task.data) ELSE None

\* a fetch that needs all three sub-calls
KmaAllOrNothing(mid_land, mid_ta, short) ==
    IF mid_land = None \/ mid_ta = None \/ short = None THEN TaskNone
    ELSE TaskDict(merge_kma_data(mid_land, mid_ta, short))

\* fetchers.py:85-91: None when no sub-call gave a result, else the merge
kma_result(mid_land, mid_ta, short) ==
    IF mid_land = None /\ mid_ta = None /\ short = None THEN TaskNone
    ELSE TaskDict(merge_kma_data(mid_land, mid_ta, short))

\* a store made whatever the fetch ended with
StoreEveryResult(entries, key, result) ==
    CachePut(entries, key,
             IF result.kind = "dict" THEN result.data
             ELSE [issued_at |-> RawNull])

\* the cache store of a fetch that ends with a payload
StoreResult(entries, key, result) ==
    IF result.kind = "dict" THEN CachePut(entries, key, result.data)
    ELSE entries

\* KmaFetcher.fetch up to the creation of the three tasks (fetchers.py:56-69)
KmaFetch(resolved) ==
    /\ fpc = "idle"
    /\ fetcher.who = "kma"
    /\ fetcher.calls < MaxFetches
    /\ fetcher' = [fetcher EXCEPT !.calls = @ + 1]
    /\ fcall' = resolved
    /\ http' = <<>>
    /\ IF CacheHas(cache, cache_key(resolved))
        THEN /\ fresult' = TaskDict(CacheGet(cache, cache_key(resolved)))
             /\ fpc' = "done"
             /\ sub' = NoSubcalls
       ELSE IF ~fetcher.api_key
        THEN /\ fresult' = TaskNone
             /\ fpc' = "done"
             /\ sub' = NoSubcalls
       ELSE /\ fresult' = TaskIdle
            /\ fpc' = "kma_sub"
            /\ sub' = [mid_land |-> Pending, mid_ta |-> Pending,
                       short |-> Pending]
    /\ UNCHANGED <<cache, aggVars, dailyVars, hourlyVars, callVars, clientVars, kwVars>>

\* the task of _fetch_mid_land runs to its end
FetchMidLand(bodies) ==
    /\ fpc = "kma_sub"
    /\ sub.mid_land = Pending
    /\ sub' = [sub EXCEPT !.mid_land = fetch_mid("mid_land", fcall, bodies)]
    /\ UNCHANGED <<fetcher, cache, fpc, fcall, http, fresult,
                   aggVars, dailyVars, hourlyVars, callVars, clientVars, kwVars>>

\* the task of _fetch_mid_ta runs to its end
FetchMidTa(bodies) ==
    /\ fpc = "kma_sub"
    /\ sub.mid_ta = Pending
    /\ sub' = [sub EXCEPT !.mid_ta = fetch_mid("mid_ta", fcall, bodies)]
    /\ UNCHANGED <<fetcher, cache, fpc, fcall, http, fresult,
                   aggVars, dailyVars, hourlyVars, callVars, clientVars, kwVars>>

\* the task of _fetch_short runs to its end
FetchShort(body) ==
    /\ fpc = "kma_sub"
    /\ sub.short = Pending
    /\ sub' = [sub EXCEPT !.short = fetch_short(fcall, body)]
    /\ UNCHANGED <<fetcher, cache, fpc, fcall, http, fresult,
                   aggVars, dailyVars, hourlyVars, callVars, clientVars, kwVars>>

\* KmaFetcher.fetch from the gather on (fetchers.py:71-92)
KmaGather ==
    /\ fpc = "kma_sub"
    /\ Pending \notin {sub.mid_land, sub.mid_ta, sub.short}
    /\ LET result == kma_result(SubResult(sub.mid_land.result),
                                SubResult(sub.mid_ta.result),
                                SubResult(sub.short.result))
       IN  /\ fresult' = result
           /\ cache' = StoreResult(cache, cache_key(fcall), result)
    /\ fpc' = "done"
    /\ UNCHANGED <<fetcher, fcall, sub, http, aggVars, dailyVars, hourlyVars, callVars, clientVars, kwVars>>

\* OpenMeteoFetcher.fetch (fetchers.py:525-558)
OpenMeteoFetch(resolved, body) ==
    /\ fpc = "idle"
    /\ fetcher.who = "om"
    /\ fetcher.calls < MaxFetches
    /\ fetcher' = [fetcher EXCEPT !.calls = @ + 1]
    /\ fcall' = resolved
    /\ IF CacheHas(cache, cache_key(resolved))
        THEN /\ fresult' = TaskDict(CacheGet(cache, cache_key(resolved)))
             /\ http' = <<>>
             /\ cache' = cache
       ELSE /\ fresult' = open_meteo_fetch(body)
            /\ http' = <<Get("forecast", body)>>
            /\ cache' = StoreResult(cache, cache_key(resolved),
                                    open_meteo_fetch(body))
    /\ fpc' = "done"
    /\ UNCHANGED <<sub, aggVars, dailyVars, hourlyVars, callVars, clientVars, kwVars>>

\* NpmsFetcher.fetch (fetchers.py:648-696); the crop of every profile has a
\* crop code
NpmsFetch(resolved, b31, b51, b53) ==
    /\ fpc = "idle"
    /\ fetcher.who = "npms"
    /\ fetcher.calls < MaxFetches
    /\ fetcher' = [fetcher EXCEPT !.calls = @ + 1]
    /\ fcall' = resolved
    /\ IF CacheHas(cache, cache_key(resolved))
        THEN /\ fresult' = TaskDict(CacheGet(cache, cache_key(resolved)))
             /\ http' = <<>>
             /\ cache' = cache
       ELSE IF ~fetcher.api_key
        THEN /\ fresult' = TaskNone
             /\ http' = <<>>
             /\ cache' = cache
       ELSE LET out == npms_fetch(resolved, fetcher.default_insect_key,
                                  b31, b51, b53)
            IN  /\ fresult' = out.result
                /\ http' = out.http
                /\ cache' = StoreResult(cache, cache_key(resolved), out.result)
    /\ fpc' = "done"
    /\ UNCHANGED <<sub, aggVars, dailyVars, hourlyVars, callVars, clientVars, kwVars>>

\* KmaFetcher.fetch is cancelled while it is suspended at the gather
\* (fetchers.py:71)
KmaCancelled ==
    /\ fpc = "kma_sub"
    /\ fresult' = TaskRaised
    /\ fpc' = "cancelled"
    /\ UNCHANGED <<fetcher, cache, fcall, sub, http,
                   aggVars, dailyVars, hourlyVars, callVars, clientVars, kwVars>>

\* OpenMeteoFetcher.fetch is cancelled at _get_client (sent = 0) or at
\* client.get (sent = 1) (fetchers.py:539-541)
OpenMeteoCancelled(resolved, body, sent) ==
    /\ fpc = "idle"
    /\ fetcher.who = "om"
    /\ fetcher.calls < MaxFetches
    /\ ~CacheHas(cache, cache_key(resolved))
    /\ fetcher' = [fetcher EXCEPT !.calls = @ + 1]
    /\ fcall' = resolved
    /\ http' = SubSeq(<<Get("forecast", body)>>, 1, sent)
    /\ fresult' = TaskRaised
    /\ fpc' = "cancelled"
    /\ UNCHANGED <<cache, sub, aggVars, dailyVars, hourlyVars, callVars, clientVars, kwVars>>

\* NpmsFetcher.fetch is cancelled at _get_client or in one of its requests,
\* when sent of them have been sent (fetchers.py:663-665)
NpmsCancelled(resolved, b31, b51, b53, sent) ==
    /\ fpc = "idle"
    /\ fetcher.who = "npms"
    /\ fetcher.api_key
    /\ fetcher.calls < MaxFetches
    /\ ~CacheHas(cache, cache_key(resolved))
    /\ LET out == npms_fetch(resolved, fetcher.default_insect_key,
                             b31, b51, b53)
       IN  /\ sent <= Len(out.http)
           /\ http' = SubSeq(out.http, 1, sent)
    /\ fetcher' = [fetcher EXCEPT !.calls = @ + 1]
    /\ fcall' = resolved
    /\ fresult' = TaskRaised
    /\ fpc' = "cancelled"
    /\ UNCHANGED <<cache, sub, aggVars, dailyVars, hourlyVars, callVars, clientVars, kwVars>>

\* the caller takes the result (or the exception) of fetch()
FetchReturn ==
    /\ fpc \in {"done", "cancelled"}
    /\ fpc' = "idle"
    /\ fcall' = NoProfile
    /\ sub' = NoSubcalls
    /\ http' = <<>>
    /\ fresult' = TaskIdle
    /\ UNCHANGED <<fetcher, cache, aggVars, dailyVars, hourlyVars, callVars, clientVars, kwVars>>

\* TTLCache: an entry older than the fetcher's ttl is gone
Expire(key) ==
    /\ fpc = "idle"
    /\ CacheHas(cache, key)
    /\ cache' = {e \in cache : e.key # key}
    /\ UNCHANGED <<fetcher, fpc, fcall, sub, http, fresult,
                   aggVars, dailyVars, hourlyVars, callVars, clientVars, kwVars>>

MidBodies == [1..MaxCandidates -> KmaResponses]

\* what the requests of a call that is cancelled later were answered with
AnsweredBefore == {"transport", "ok"}

NextFetch ==
    \/ \E resolved \in FetchProfiles : KmaFetch(resolved)
    \/ \E bodies \in MidBodies : FetchMidLand(bodies)
    \/ \E bodies \in MidBodies : FetchMidTa(bodies)
    \/ \E body \in KmaResponses : FetchShort(body)
    \/ KmaGather
    \/ \E resolved \in FetchProfiles, body \in OpenMeteoResponses :
            OpenMeteoFetch(resolved, body)
    \/ \E resolved \in FetchProfiles, b31 \in NpmsResponses,
          b51 \in LookupResponses, b53 \in NpmsResponses :
            NpmsFetch(resolved, b31, b51, b53)
    \/ KmaCancelled
    \/ \E resolved \in FetchProfiles, body \in OpenMeteoResponses,
          sent \in 0..1 : OpenMeteoCancelled(resolved, body, sent)
    \/ \E resolved \in FetchProfiles, b31 \in AnsweredBefore,
          b51 \in AnsweredBefore, b53 \in AnsweredBefore, sent \in 0..3 :
            NpmsCancelled(resolved, b31, b51, b53, sent)
    \/ FetchReturn
    \/ \E key \in {cache_key(p) : p \in FetchProfiles} : Expire(key)

SpecFetch == InitFetch /\ [][NextFetch]_vars

(***************************************************************************)
(* BaseFetcher._get_client called by several coroutines of one fetcher     *)
(* (fetchers.py:31-35).  Each call is cut at its statements: asyncio       *)
(* switches coroutines at the lock only, which allows fewer interleavings  *)
(* than the ones below.                                                    *)
(***************************************************************************)
InitClient ==
    /\ records = DefaultRecords
    /\ AggIdle
    /\ DailyIdle
    /\ HourlyIdle
    /\ FetchIdle
    /\ CallIdle
    /\ KwIdle
    /\ client = 0
    /\ built = 0
    /\ lock = 0
    /\ gpc = [c \in Callers |-> "off"]
    /\ got = [c \in Callers |-> 0]

\* a lock that excludes nobody
LockAlwaysFree(holder) == TRUE

\* asyncio.Lock: acquire() goes through when nobody holds the lock
lock_free(holder) == holder = 0

\* `client = await self._get_client()` (fetchers.py:100, 141, 181)
CallGetClient(c) ==
    /\ gpc[c] = "off"
    /\ gpc' = [gpc EXCEPT ![c] = "acquire"]
    /\ UNCHANGED <<client, built, lock, got, aggVars, dailyVars, hourlyVars,
                   fetchVars, callVars, kwVars>>

\* `async with self._lock:` entered (fetchers.py:32)
AcquireLock(c) ==
    /\ gpc[c] = "acquire"
    /\ lock_free(lock)
    /\ lock' = c
    /\ gpc' = [gpc EXCEPT ![c] = "check"]
    /\ UNCHANGED <<client, built, got, aggVars, dailyVars, hourlyVars,
                   fetchVars, callVars, kwVars>>

\* `if self._client is None:` (fetchers.py:33)
CheckClient(c) ==
    /\ gpc[c] = "check"
    /\ gpc' = [gpc EXCEPT ![c] = IF client = 0 THEN "build" ELSE "release"]
    /\ UNCHANGED <<client, built, lock, got, aggVars, dailyVars, hourlyVars,
                   fetchVars, callVars, kwVars>>

\* `self._client = httpx.AsyncClient(...)` (fetchers.py:34)
BuildClient(c) ==
    /\ gpc[c] = "build"
    /\ built' = built + 1
    /\ client' = built + 1
    /\ gpc' = [gpc EXCEPT ![c] = "release"]
    /\ UNCHANGED <<lock, got, aggVars, dailyVars, hourlyVars, fetchVars,
                   callVars, kwVars>>

\* the end of the `async with` block
ReleaseLock(c) ==
    /\ gpc[c] = "release"
    /\ lock' = IF lock = c THEN 0 ELSE lock
    /\ gpc' = [gpc EXCEPT ![c] = "return"]
    /\ UNCHANGED <<client, built, got, aggVars, dailyVars, hourlyVars,
                   fetchVars, callVars, kwVars>>

\* `return self._client` (fetchers.py:35)
ReturnClient(c) ==
    /\ gpc[c] = "return"
    /\ got' = [got EXCEPT ![c] = client]
    /\ gpc' = [gpc EXCEPT ![c] = "done"]
    /\ UNCHANGED <<client, built, lock, aggVars, dailyVars, hourlyVars,
                   fetchVars, callVars, kwVars>>

NextClient ==
    \/ \E c \in Callers : CallGetClient(c)
    \/ \E c \in Callers : AcquireLock(c)
    \/ \E c \in Callers : CheckClient(c)
    \/ \E c \in Callers : BuildClient(c)
    \/ \E c \in Callers : ReleaseLock(c)
    \/ \E c \in Callers : ReturnClient(c)

SpecClient == InitClient /\ [][NextClient]_vars

(***************************************************************************)
(* The normalizers on their own                                            *)
(***************************************************************************)
MaxWarnings == 1

\* what a call ends with
Returned(value) == [kind |-> "returned", value |-> value]
RaisedError(name) == [kind |-> "raised", error |-> name]
CallPending == [kind |-> "pending"]

\* values of a datetime field: two ISO strings, an absent key, a string
\* fromisoformat does not read
TsValues == {RawTs(3, "kst"), RawNull, RawStr("noon")}
\* values of a numeric field: a number and a string float() does not read
NumValues == {RawNum(180), RawStr("warm")}

NormHourlyEntries ==
    {RawHourly(ts, t_c, RawNum(700), RawNum(20), RawNull, RawNum(0), RawNull) :
        ts \in TsValues, t_c \in NumValues}
NormDailyLists ==
    {<<>>, <<RawDaily(RawDate(1), RawStr("warm"), RawNum(70), RawNull,
                      RawNull, RawStr("clear"), RawNum(100))>>}
NormWarningEntries ==
    {[type |-> RawStr("WIND"), level |-> RawStr("WATCH"),
      area |-> RawStr("Andong"), from |-> from, to |-> RawTs(20, "kst")] :
        from \in TsValues}
    \cup {[type |-> RawStr("WIND"), level |-> RawStr("WATCH"),
           area |-> RawStr("Andong"), from |-> RawTs(3, "kst"), to |-> RawNull]}

NormKmaPayloads ==
    {[issued_at |-> issued_at, daily |-> daily, hourly |-> hourly,
      warnings |-> warnings, provenance |-> RawStr("KMA(2025-01-01)")] :
        issued_at \in {RawTs(6, "kst"), RawStr("noon")},
        daily \in NormDailyLists,
        hourly \in SeqsUpTo(NormHourlyEntries, MaxHourlyLen),
        warnings \in SeqsUpTo(NormWarningEntries, MaxWarnings)}
NormOpenMeteoPayloads ==
    {[issued_at |-> issued_at, daily |-> daily, hourly |-> hourly,
      provenance |-> RawStr("Open-Meteo(2025-01-01)")] :
        issued_at \in {RawTs(6, "kst"), RawStr("noon")},
        daily \in NormDailyLists,
        hourly \in SeqsUpTo(NormHourlyEntries, MaxHourlyLen)}
NormNpmsPayloads ==
    {NpmsPayloadBulletins, NpmsPayloadMoth, NpmsPayloadZero,
     [NpmsPayloadMoth EXCEPT
        !.observations = <<RawObservation("oriental fruit moth", "per trap",
                                          "SS0127", RawStr("many"),
                                          "Andong-si(ko)")>>]}

\* the argument of a normalizer: None or a payload dict
NormalizeInputs ==
    {[src |-> "kma", data |-> d] :
        d \in {None} \cup {Some(x) : x \in NormKmaPayloads}}
    \cup {[src |-> "open-meteo", data |-> d] :
        d \in {None} \cup {Some(x) : x \in NormOpenMeteoPayloads}}
    \cup {[src |-> "npms", data |-> d] :
        d \in {None} \cup {Some(x) : x \in NormNpmsPayloads}}

\* a call of _normalize_kma, _normalize_open_meteo or _normalize_npms: the
\* normalized source, or the ValidationError of the model class that is
\* handed a field it does not accept
normalize_call(src, data, now) ==
    IF src = "npms"
        THEN LET pest == normalize_npms(data, "apple", now)
             IN  IF BulletinsValid(pest.bulletins) THEN Returned(pest)
                 ELSE RaisedError("ValidationError")
    ELSE LET norm == IF src = "kma" THEN normalize_kma(data, now)
                     ELSE normalize_open_meteo(data, now)
         IN  IF SourceValid(norm) THEN Returned(norm)
             ELSE RaisedError("ValidationError")

\* fetchers.py:1021-1030 on a code written as its sequence of digits:
\* the code, the code without trailing zeros, without leading zeros, its
\* first four and its first five digits, the empty ones dropped
RECURSIVE RStripZeros(_)
RStripZeros(text) ==
    IF text # <<>> /\ text[Len(text)] = 0
        THEN RStripZeros(SubSeq(text, 1, Len(text) - 1))
        ELSE text

RECURSIVE LStripZeros(_)
LStripZeros(text) ==
    IF text # <<>> /\ text[1] = 0 THEN LStripZeros(Tail(text)) ELSE text

region_code_variants(text) ==
    {text, RStripZeros(text), LStripZeros(text),
     SubSeq(text, 1, MinOf({4, Len(text)})),
     SubSeq(text, 1, MinOf({5, Len(text)}))} \ {<<>>}

\* os.environ.get("NPMS_TARGET_SIGUNGU", "안동시") with the variable unset; a
\* place name is the sequence of its words
NPMS_TARGET_SIGUNGU == "Andong-si"

\* `target_name not in sigungu_nm` negated
NameHolds(sigungu_nm, target_name) ==
    \E i \in DOMAIN sigungu_nm : sigungu_nm[i] = target_name

\* the entries that reach the value test of _parse_npms_observations
\* (fetchers.py:865-868)
region_match(entry, region_code) ==
    \/ entry.sigunguCode \in region_code_variants(region_code)
    \/ NameHolds(entry.sigunguNm, NPMS_TARGET_SIGUNGU)

\* _parse_npms_observations on the structList of an SVC53 answer
\* (fetchers.py:853-895): None, or the observations in order
parse_struct_list(entries, region_code) ==
    LET kept == SelectSeq(entries, LAMBDA e :
                    /\ region_match(e, region_code)
                    /\ e.inqireValue # None
                    /\ e.inqireValue[1] # 0)
    IN  IF kept = <<>> THEN None
        ELSE Some([i \in DOMAIN kept |->
                    [code |-> kept[i].inqireCnClCode,
                     value |-> kept[i].inqireValue[1],
                     area |-> kept[i].sigunguNm]])

MaxEntries == 2

\* npms_region_code of the default records (resolver.py:29, 36, 43) and of
\* the profile of tests/test_fetchers.py
RegionCodes == {<<4, 7, 2, 8, 0>>, <<4, 1, 2, 8, 0>>, <<5, 0, 1, 1, 0>>,
                <<4, 7, 1, 7, 0>>}

\* entries of an SVC53 structList: the two of tests/test_fetchers.py:163-178
\* and others for the codes, names and values that tell the filter's cases
\* apart
StructEntries ==
    {[sigunguCode |-> c, sigunguNm |-> n, inqireValue |-> v,
      inqireCnClCode |-> "SS0128"] :
        c \in {<<>>, <<4, 7, 1, 7>>, <<4, 7, 2, 5>>, <<4, 7, 2, 8>>,
                <<5, 0, 1, 1>>, <<5, 0, 1, 1, 0>>},
        n \in {<<>>, <<"Andong-si">>, <<"Sangju-si">>,
                <<"Gyeongbuk", "Andong-si">>},
        v \in {None, Some(0), Some(124), Some(999)}}

ParseInputs ==
    {[region_code |-> r, entries |-> e] :
        r \in RegionCodes, e \in SeqsUpTo(StructEntries, MaxEntries) \ {<<>>}}

InitNormalize ==
    /\ records = DefaultRecords
    /\ AggIdle
    /\ DailyIdle
    /\ HourlyIdle
    /\ FetchIdle
    /\ ClientIdle
    /\ KwIdle
    /\ \/ fn = "normalize" /\ arg \in NormalizeInputs
       \/ fn = "parse_npms_observations" /\ arg \in ParseInputs
    /\ ret = CallPending

\* NpmsFetcher._parse_npms_observations on a payload with entries
ParseObservations ==
    /\ fn = "parse_npms_observations"
    /\ ret = CallPending
    /\ ret' = Returned(parse_struct_list(arg.entries, arg.region_code))
    /\ UNCHANGED <<fn, arg, aggVars, dailyVars, hourlyVars, fetchVars,
                   clientVars, kwVars>>

Normalize(now) ==
    /\ fn = "normalize"
    /\ ret = CallPending
    /\ ret' = normalize_call(arg.src, arg.data, now)
    /\ UNCHANGED <<fn, arg, aggVars, dailyVars, hourlyVars, fetchVars,
                   clientVars, kwVars>>

NextNormalize ==
    \/ \E now \in Nows : Normalize(now)
    \/ ParseObservations

SpecNormalize == InitNormalize /\ [][NextNormalize]_vars

(***************************************************************************)
(* soft_hints._rain_run_max_days on its own                                *)
(***************************************************************************)
MaxRainDays == 4

\* precip_mm of a day: absent, 0.0, 0.5 and 12.0
Precips == {None, Some(0), Some(5), Some(120)}

\* climate.daily lists of consecutive dates
RainInputs ==
    {[i \in 1..Len(p) |->
        ClimateDaily(i - 1, Some(180), Some(60), p[i], None, None, None,
                     "open-meteo")] : p \in SeqsUpTo(Precips, MaxRainDays)}

MaxCountHours == 3
MaxWetHours == 4
MaxObservations == 3

\* t_c and wind_ms of an hour: absent, just below, at and above 33.0 / 10.0
HeatValues == {None, Some(329), Some(330), Some(350)}
WindValues == {None, Some(99), Some(100)}

\* climate.hourly lists of consecutive hours
CountInputs ==
    {[i \in 1..Len(v) |->
        ClimateHourly(i - 1, v[i][1], Some(600), v[i][2], None, None, None,
                      "open-meteo")] :
        v \in SeqsUpTo(HeatValues \X WindValues, MaxCountHours)}

\* hours of two days: 20:00, 21:00 and 23:00 of day 0, 02:00, 05:00, 06:00
\* and 23:00 of day 1
NightHours == {20, 21, 23, 26, 29, 30, 47}
\* rh_pct: absent, 89.9 and 90.0
RhValues == {None, Some(899), Some(900)}
\* a night of humid hours on either side of midnight, to which the chosen
\* hours are added: 22:00 of day 1 and 00:00, 03:00 and 04:00 of day 2
HumidNight == {46, 48, 51, 52}

RECURSIVE AscendingHours(_, _)
AscendingHours(hours, rh) ==
    IF hours = {} THEN <<>>
    ELSE <<ClimateHourly(MinOf(hours), Some(180), rh[MinOf(hours)], Some(20),
                         None, None, None, "open-meteo")>>
         \o AscendingHours(hours \ {MinOf(hours)}, rh)

\* climate.hourly lists in ascending order of ts: up to MaxWetHours chosen
\* hours, alone or around the humid night
WetInputs ==
    UNION {{AscendingHours(hours \cup base,
                           [h \in hours \cup base |->
                                IF h \in hours THEN rh[h] ELSE Some(950)]) :
                rh \in [hours -> RhValues], base \in {{}, HumidNight}} :
            hours \in {h \in SUBSET NightHours : Cardinality(h) <= MaxWetHours}}

\* value of an observation: absent, 0, 9.9, 10.0 and 11.5
ObservationValues == {None, Some(0), Some(99), Some(100), Some(115)}

ObservationEntries ==
    {PestObservation("moth", "per trap", code, value, "Andong-si(ko)", None) :
        code \in {"SS0127", "SS0128"}, value \in ObservationValues}
    \cup {PestObservation("moth", "per trap", "SS0127", Some(115), "", None)}

PestInputs == SeqsUpTo(ObservationEntries, MaxObservations)

InitHints ==
    /\ records = DefaultRecords
    /\ AggIdle
    /\ DailyIdle
    /\ HourlyIdle
    /\ FetchIdle
    /\ ClientIdle
    /\ KwIdle
    /\ \/ fn = "rain_run_max_days" /\ arg \in RainInputs
       \/ fn = "count_hours" /\ arg \in CountInputs
       \/ fn = "wet_nights" /\ arg \in WetInputs
       \/ fn = "compute_pest_hints" /\ arg \in PestInputs
    /\ ret = CallPending

RainRun ==
    /\ fn = "rain_run_max_days"
    /\ ret = CallPending
    /\ ret' = Returned(rain_run_max_days(arg))
    /\ UNCHANGED <<fn, arg, aggVars, dailyVars, hourlyVars, fetchVars,
                   clientVars, kwVars>>

\* soft_hints.py:26-27: the two uses of _count_hours
CountHours ==
    /\ fn = "count_hours"
    /\ ret = CallPending
    /\ ret' = Returned(
        [heat_hours_ge_33c |-> count_hours(arg, "t_c", HEAT_THRESHOLD),
         wind_hours_ge_10ms |-> count_hours(arg, "wind_ms", WIND_THRESHOLD)])
    /\ UNCHANGED <<fn, arg, aggVars, dailyVars, hourlyVars, fetchVars,
                   clientVars, kwVars>>

WetNights ==
    /\ fn = "wet_nights"
    /\ ret = CallPending
    /\ ret' = Returned(wet_nights(arg))
    /\ UNCHANGED <<fn, arg, aggVars, dailyVars, hourlyVars, fetchVars,
                   clientVars, kwVars>>

PestHints ==
    /\ fn = "compute_pest_hints"
    /\ ret = CallPending
    /\ ret' = Returned(compute_pest_hints(arg))
    /\ UNCHANGED <<fn, arg, aggVars, dailyVars, hourlyVars, fetchVars,
                   clientVars, kwVars>>

NextHints ==
    \/ RainRun
    \/ CountHours
    \/ WetNights
    \/ PestHints

SpecHints == InitHints /\ [][NextHints]_vars

(***************************************************************************)
(* The SMS keywords: KeywordHandler.handle, ChangeFlow and create_brief on *)
(* the shared store.  A text is the sequence of its characters.            *)
(***************************************************************************)
LowerCase == <<"c", "e", "h", "i", "n", "o", "p", "r", "s", "t", "a", "g">>
UpperCase == <<"C", "E", "H", "I", "N", "O", "P", "R", "S", "T", "A", "G">>

\* str.upper() on one character
UpperChar(ch) ==
    IF \E i \in DOMAIN LowerCase : LowerCase[i] = ch
        THEN UpperCase[CHOOSE i \in DOMAIN LowerCase : LowerCase[i] = ch]
        ELSE ch

\* str.strip()
RECURSIVE strip(_)
strip(text) ==
    IF text = <<>> THEN text
    ELSE IF text[1] = " " THEN strip(Tail(text))
    ELSE IF text[Len(text)] = " " THEN strip(SubSeq(text, 1, Len(text) - 1))
    ELSE text

\* message.strip().upper() (handler.py:25)
normalize_message(message) ==
    LET stripped == strip(message)
    IN  [i \in DOMAIN stripped |-> UpperChar(stripped[i])]

\* str.split(",") after message.replace("/", ",")
RECURSIVE SplitCommas(_, _)
SplitCommas(text, current) ==
    IF text = <<>> THEN <<current>>
    ELSE IF text[1] \in {",", "/"}
        THEN <<current>> \o SplitCommas(Tail(text), <<>>)
    ELSE SplitCommas(Tail(text), Append(current, text[1]))

\* change_flow.py:21: the stripped parts that are not empty
change_parts(message) ==
    LET pieces == SplitCommas(message, <<>>)
        stripped == [i \in DOMAIN pieces |-> strip(pieces[i])]
    IN  SelectSeq(stripped, LAMBDA part : part # <<>>)

\* ChangeFlow.complete (change_flow.py:20-34): [store, reply]
complete(st, profile_id, message) ==
    LET parts == change_parts(message)
        waiting == [st EXCEPT !.pending = @ \cup {profile_id}]
    IN  IF Len(parts) # 3
            THEN [store |-> waiting, reply |-> "bad format"]
        ELSE IF st.profiles[profile_id] = None
            THEN [store |-> waiting, reply |-> "no profile"]
        ELSE [store |->
                [st EXCEPT
                    !.profiles[profile_id] =
                        Some([@[1] EXCEPT !.region = parts[1],
                                          !.crop = parts[2],
                                          !.stage = parts[3]]),
                    !.pending = @ \ {profile_id}],
              reply |-> "changed"]

\* handler.py:30-53: the keywords, for a profile with no change pending
keywords(st, profile_id, normalized) ==
    IF normalized = <<"S", "T", "O", "P">>
        THEN [store |-> [st EXCEPT !.opt_out = @ \cup {profile_id}],
              reply |-> "stopped"]
    ELSE IF profile_id \in st.opt_out
        THEN [store |-> st, reply |-> "opted out"]
    ELSE IF normalized = <<"C", "H", "A", "N", "G", "E">>
        THEN [store |-> [st EXCEPT !.pending = @ \cup {profile_id}],
              reply |-> "instruction"]
    ELSE IF profile_id \notin st.latest
        THEN [store |-> st, reply |-> "no brief"]
    ELSE IF normalized = <<"1">>
        THEN [store |-> st, reply |-> "link"]
    ELSE IF normalized = <<"R", "E", "P", "O", "R", "T">>
        THEN [store |-> st, reply |-> "summary"]
    ELSE [store |-> st, reply |-> "keywords"]

\* a handler that looks at STOP before it looks at the pending change
HandleStopFirst(st, profile_id, message) ==
    IF profile_id \in st.pending
       /\ normalize_message(message) # <<"S", "T", "O", "P">>
        THEN complete(st, profile_id, message)
        ELSE keywords(st, profile_id, normalize_message(message))

\* KeywordHandler.handle (handler.py:24-53): [store, reply]
handle(st, profile_id, message) ==
    IF profile_id \in st.pending THEN complete(st, profile_id, message)
    ELSE keywords(st, profile_id, normalize_message(message))

\* briefs.py:32-34
DEFAULT_REGION == <<"Andong-si">>
DEFAULT_CROP == <<"apple">>
DEFAULT_STAGE == <<"flowering">>

\* create_brief for a request that names the phone only (briefs.py:85-201):
\* [store, reply]; outcome tells whether the generator and the SMS client
\* worked
create_brief(st, phone, outcome) ==
    LET profile == [id |-> phone, region |-> DEFAULT_REGION,
                    crop |-> DEFAULT_CROP, stage |-> DEFAULT_STAGE]
        saved == [st EXCEPT !.profiles[phone] = Some(profile)]
        stored == [saved EXCEPT !.latest = @ \cup {phone}]
    IN  IF phone \in st.opt_out THEN [store |-> st, reply |-> "403"]
        ELSE IF outcome = "generator failed"
            THEN [store |-> saved, reply |-> "503"]
        ELSE IF outcome = "sms failed" THEN [store |-> stored, reply |-> "502"]
        ELSE [store |-> stored, reply |-> "200"]

\* inbound texts: the four keywords, one of them in lower case between
\* blanks, a text that is no keyword, and replies to the CHANGE instruction
\* with three parts, with a slash, with an empty part, with a blank part, with
\* two and with four parts
Messages ==
    {<<"S", "T", "O", "P">>, <<" ", "s", "t", "o", "p", " ">>,
     <<"R", "E", "P", "O", "R", "T">>, <<"C", "H", "A", "N", "G", "E">>,
     <<"1">>, <<"h", "i">>,
     <<"x", ",", " ", "y", ",", "z">>, <<"x", "/", "y", ",", "z">>,
     <<"x", ",", ",", "y", ",", "z">>, <<"x", ",", " ", ",", "y">>,
     <<"x", ",", "y">>, <<"x", ",", "y", ",", "z", ",", "w">>}

BriefOutcomes == {"ok", "generator failed", "sms failed"}

InitKeywords ==
    /\ records = DefaultRecords
    /\ AggIdle
    /\ DailyIdle
    /\ HourlyIdle
    /\ FetchIdle
    /\ CallIdle
    /\ ClientIdle
    /\ store = EmptyStore
    /\ inbound = NoInbound
    /\ reply = ""

\* POST /api/sms/webhook (webhook.py:38-43): the handler's reply
Handle(profile_id, message) ==
    /\ LET r == handle(store, profile_id, message)
       IN  /\ store' = r.store
           /\ reply' = r.reply
    /\ inbound' = [op |-> "sms", id |-> profile_id, message |-> message]
    /\ UNCHANGED <<aggVars, dailyVars, hourlyVars, fetchVars, callVars,
                   clientVars>>

\* POST /api/briefs
CreateBrief(phone, outcome) ==
    /\ LET r == create_brief(store, phone, outcome)
       IN  /\ store' = r.store
           /\ reply' = r.reply
    /\ inbound' = [op |-> "brief", id |-> phone, message |-> <<>>]
    /\ UNCHANGED <<aggVars, dailyVars, hourlyVars, fetchVars, callVars,
                   clientVars>>

NextKeywords ==
    \/ \E profile_id \in ProfileIds, message \in Messages :
            Handle(profile_id, message)
    \/ \E phone \in ProfileIds, outcome \in BriefOutcomes :
            CreateBrief(phone, outcome)

SpecKeywords == InitKeywords /\ [][NextKeywords]_vars

(***************************************************************************)
(* Properties of the daily merge (SpecDaily)                               *)
(***************************************************************************)
\* C1: for every date present in both normalized daily series, the merged
\* record of that date carries Open-Meteo's tmax_c, tmin_c, wind_ms and
\* precip_mm; no numeric field of the KMA record takes their place.
C1_FallbackNumericsKept ==
    dpc = "merged" =>
        \A i \in DOMAIN dailyOut :
            LET oi == DailyGet(omDailyIn, dailyOut[i].date)
                ki == DailyGet(kmaDaily, dailyOut[i].date)
            IN  (oi # 0 /\ ki # 0) =>
                    /\ dailyOut[i].tmax_c = omDailyIn[oi].tmax_c
                    /\ dailyOut[i].tmin_c = omDailyIn[oi].tmin_c
                    /\ dailyOut[i].wind_ms = omDailyIn[oi].wind_ms
                    /\ dailyOut[i].precip_mm = omDailyIn[oi].precip_mm

\* a merged date that both series hold, where KMA carries numerics of its
\* own that differ from Open-Meteo's
C1_Witness ==
    /\ dpc = "merged"
    /\ \E i \in DOMAIN dailyOut :
        LET oi == DailyGet(omDailyIn, dailyOut[i].date)
            ki == DailyGet(kmaDaily, dailyOut[i].date)
        IN  /\ oi # 0 /\ ki # 0
            /\ kmaDaily[ki].tmax_c # None
            /\ kmaDaily[ki].precip_mm # None
            /\ omDailyIn[oi].tmax_c # None
            /\ kmaDaily[ki].tmax_c # omDailyIn[oi].tmax_c
            /\ kmaDaily[ki].precip_mm # omDailyIn[oi].precip_mm
            /\ dailyOut[i].tmax_c = omDailyIn[oi].tmax_c

\* C2: every merged record stems from a source record of its date.  On a
\* date both series hold it is the Open-Meteo record, with the summary taken
\* from KMA exactly when Open-Meteo has none and KMA has one, and the
\* precipitation probability taken from KMA exactly when Open-Meteo has
\* none; on a date only Open-Meteo holds it is the Open-Meteo record as it
\* is, on a date only KMA holds the KMA record as it is.
C2_FieldLevelEnrichment ==
    dpc = "merged" =>
        \A i \in DOMAIN dailyOut :
            LET m == dailyOut[i]
                oi == DailyGet(omDailyIn, m.date)
                ki == DailyGet(kmaDaily, m.date)
            IN  /\ oi # 0 \/ ki # 0
                /\ (oi = 0) => m = kmaDaily[ki]
                /\ (oi # 0 /\ ki = 0) => m = omDailyIn[oi]
                /\ (oi # 0 /\ ki # 0) =>
                    /\ [m EXCEPT !.summary = None,
                                 !.precip_probability_pct = None]
                       = [omDailyIn[oi] EXCEPT !.summary = None,
                                               !.precip_probability_pct = None]
                    /\ m.summary =
                        IF ~TruthyStr(omDailyIn[oi].summary)
                           /\ TruthyStr(kmaDaily[ki].summary)
                            THEN kmaDaily[ki].summary
                            ELSE omDailyIn[oi].summary
                    /\ m.precip_probability_pct =
                        IF omDailyIn[oi].precip_probability_pct = None
                            THEN kmaDaily[ki].precip_probability_pct
                            ELSE omDailyIn[oi].precip_probability_pct

\* Open-Meteo {tmax 20.0, tmin 10.0, no summary} and KMA {summary "clear"}
\* on one date give {tmax 20.0, tmin 10.0, summary "clear"}
C2_Witness ==
    /\ dpc = "merged"
    /\ \E i \in DOMAIN dailyOut :
        LET oi == DailyGet(omDailyIn, dailyOut[i].date)
            ki == DailyGet(kmaDaily, dailyOut[i].date)
        IN  /\ oi # 0 /\ ki # 0
            /\ omDailyIn[oi].tmax_c = Some(200)
            /\ omDailyIn[oi].tmin_c = Some(100)
            /\ omDailyIn[oi].summary = None
            /\ kmaDaily[ki].summary = Some("clear")
            /\ dailyOut[i].tmax_c = Some(200)
            /\ dailyOut[i].tmin_c = Some(100)
            /\ dailyOut[i].summary = Some("clear")
            /\ dailyOut[i].src = "open-meteo"

\* C3, as the specification states it: the merged series has at most 11
\* entries, all within [E, E + 10 days], E the earliest date of both series.
C3_HorizonFromEarliestDate ==
    (dpc = "merged" /\ (kmaDaily # <<>> \/ omDailyIn # <<>>)) =>
        LET E == MinOf({kmaDaily[i].date : i \in DOMAIN kmaDaily}
                       \cup {omDailyIn[i].date : i \in DOMAIN omDailyIn})
        IN  /\ Len(dailyOut) <= HorizonDays
            /\ \A i \in DOMAIN dailyOut :
                /\ E <= dailyOut[i].date
                /\ dailyOut[i].date <= E + (HorizonDays - 1)

\* C3, as the code has it: the merged series has at most 11 entries, in
\* strictly ascending date order, all within [B, B + 10 days], where B is
\* the date of the first Open-Meteo record when that series is not empty
\* and the date of the first KMA record otherwise.
C3_HorizonFromBaseDate ==
    (dpc = "merged" /\ (kmaDaily # <<>> \/ omDailyIn # <<>>)) =>
        LET B == IF omDailyIn # <<>> THEN omDailyIn[1].date
                 ELSE kmaDaily[1].date
        IN  /\ Len(dailyOut) <= HorizonDays
            /\ \A i \in DOMAIN dailyOut :
                /\ B <= dailyOut[i].date
                /\ dailyOut[i].date <= B + (HorizonDays - 1)
            /\ \A i, j \in DOMAIN dailyOut :
                i < j => dailyOut[i].date < dailyOut[j].date

\* KMA starts before Open-Meteo, and a source holds a date past the horizon
C3_Witness ==
    /\ dpc = "merged"
    /\ kmaDaily # <<>> /\ omDailyIn # <<>>
    /\ kmaDaily[1].date < omDailyIn[1].date
    /\ \E i \in DOMAIN kmaDaily :
        kmaDaily[i].date > omDailyIn[1].date + (HorizonDays - 1)
    /\ dailyOut # <<>>
    /\ \A i \in DOMAIN dailyOut : dailyOut[i].date >= omDailyIn[1].date

(***************************************************************************)
(* Properties of the hourly merge (SpecHourly)                             *)
(***************************************************************************)
\* C4: the merged hourly series is in strictly ascending timestamp order
\* (so no timestamp occurs twice), starts at the earliest timestamp of both
\* series, and its first and last timestamps are less than 72 hours apart.
C4_HourlyWindow ==
    hpc = "merged" =>
        /\ \A i, j \in DOMAIN hourlyOut :
            i < j => hourlyOut[i].ts < hourlyOut[j].ts
        /\ hourlyOut # <<>> =>
            hourlyOut[Len(hourlyOut)].ts - hourlyOut[1].ts < WindowHours
        /\ (kmaHourly # <<>> \/ omHourly # <<>>) =>
            /\ hourlyOut # <<>>
            /\ hourlyOut[1].ts =
                MinOf({kmaHourly[i].ts : i \in DOMAIN kmaHourly}
                      \cup {omHourly[i].ts : i \in DOMAIN omHourly})

\* both series hold the first timestamp, one holds the timestamp 72 hours
\* later, and the merged series has two entries
C4_Witness ==
    /\ hpc = "merged"
    /\ Len(hourlyOut) >= 2
    /\ HourlyGet(kmaHourly, hourlyOut[1].ts) # 0
    /\ HourlyGet(omHourly, hourlyOut[1].ts) # 0
    /\ \E i \in DOMAIN kmaHourly :
        kmaHourly[i].ts = hourlyOut[1].ts + WindowHours
    /\ hourlyOut[Len(hourlyOut)].ts = hourlyOut[1].ts + (WindowHours - 1)

\* C5: a merged hourly record is the KMA record of its timestamp when KMA
\* has one and the Open-Meteo record otherwise, and every timestamp of
\* either series that is less than 72 hours after the earliest timestamp
\* has a merged record.
C5_KmaPrecedence ==
    hpc = "merged" =>
        LET all == {kmaHourly[i].ts : i \in DOMAIN kmaHourly}
                   \cup {omHourly[i].ts : i \in DOMAIN omHourly}
        IN  /\ \A i \in DOMAIN hourlyOut :
                LET ki == HourlyGet(kmaHourly, hourlyOut[i].ts)
                    oi == HourlyGet(omHourly, hourlyOut[i].ts)
                IN  IF ki # 0 THEN hourlyOut[i] = kmaHourly[ki]
                    ELSE oi # 0 /\ hourlyOut[i] = omHourly[oi]
            /\ \A t \in all :
                t < MinOf(all) + WindowHours =>
                    \E i \in DOMAIN hourlyOut : hourlyOut[i].ts = t

\* one merged timestamp that both series hold, answered by KMA, and one
\* that only Open-Meteo holds
C5_Witness ==
    /\ hpc = "merged"
    /\ \E i \in DOMAIN hourlyOut :
        /\ HourlyGet(kmaHourly, hourlyOut[i].ts) # 0
        /\ HourlyGet(omHourly, hourlyOut[i].ts) # 0
        /\ hourlyOut[i].src = "kma"
    /\ \E i \in DOMAIN hourlyOut :
        /\ HourlyGet(kmaHourly, hourlyOut[i].ts) = 0
        /\ hourlyOut[i].src = "open-meteo"

(***************************************************************************)
(* Properties of aggregate behind the endpoint (Spec)                      *)
(***************************************************************************)
\* C6: no pest observation of a returned evidence pack, live or demo, has
\* a value that is missing or equal to zero.
C6_NoZeroObservations ==
    (pc = "done" /\ response.pack # None) =>
        \A i \in DOMAIN response.pack[1].pest.observations :
            /\ response.pack[1].pest.observations[i].value # None
            /\ response.pack[1].pest.observations[i].value[1] # 0

\* C7: a request whose (region lower-cased, crop) pair the resolver's table
\* does not hold is answered with the ValueError, HTTP 400, before any
\* fetcher is invoked or any task started, and the table stays as built.
C7_ResolverFailsClosed ==
    /\ records \in {DefaultRecords, InjectedRecords}
    /\ (pc # "idle" /\ <<Lower(req.region), req.crop>> \notin DOMAIN records) =>
        /\ pc = "done"
        /\ response.status = 400
        /\ response.raised = Some("ValueError")
        /\ response.pack = None
        /\ calls = NoCalls
        /\ tasks = NoTasks

\* a live request for a region no table holds has been answered
C7_Witness ==
    /\ pc = "done"
    /\ req.region = "Nonexistent-City"
    /\ ~req.demo
    /\ <<Lower(req.region), req.crop>> \notin DOMAIN records
    /\ response.status = 400
    /\ calls = NoCalls

\* C8: a demo request for Andong-si / apple is answered with a pack built
\* from the scripted bundle, no fetcher invoked: the daily series is not
\* empty, its first record comes from Open-Meteo, some daily record carries
\* a summary, and there are pest observations.
C8_DemoAndongSucceeds ==
    (pc = "done" /\ req.demo /\ Lower(req.region) = "andong-si"
        /\ req.crop = "apple") =>
        /\ response.status = 200
        /\ response.pack # None
        /\ calls = NoCalls
        /\ response.pack[1].climate.daily # <<>>
        /\ response.pack[1].climate.daily[1].src = "open-meteo"
        /\ \E i \in DOMAIN response.pack[1].climate.daily :
            TruthyStr(response.pack[1].climate.daily[i].summary)
        /\ response.pack[1].pest.observations # <<>>

\* C9: a live request for Andong-si / apple reaches the three fetchers, and
\* when exactly one weather fetcher ends without data it is answered with a
\* pack: the provenance holds the label of the weather source that
\* delivered and none of the other, and without KMA every daily record
\* comes from Open-Meteo and there are no warnings.
C9_PartialDegradation ==
    (pc = "done" /\ ~req.demo /\ Lower(req.region) = "andong-si"
        /\ req.crop = "apple") =>
        /\ \A f \in {"kma", "om", "npms"} :
            tasks[f].kind \in {"none", "exc", "dict"}
        /\ (tasks.kma.kind # "dict" /\ tasks.om.kind = "dict") =>
            /\ response.status = 200
            /\ response.pack # None
            /\ response.pack[1].climate.provenance
                = <<"Open-Meteo(2025-01-01)">>
            /\ \A i \in DOMAIN response.pack[1].climate.daily :
                response.pack[1].climate.daily[i].src = "open-meteo"
            /\ response.pack[1].climate.daily # <<>>
            /\ response.pack[1].climate.warnings = <<>>
        /\ (tasks.kma.kind = "dict" /\ tasks.om.kind # "dict") =>
            /\ response.status = 200
            /\ response.pack # None
            /\ response.pack[1].climate.provenance = <<"KMA(2025-01-01)">>
            /\ \A i \in DOMAIN response.pack[1].climate.daily :
                response.pack[1].climate.daily[i].src = "kma"

\* C10, as the specification states it: when both weather fetchers end
\* without data for a resolved profile, the request fails with HTTP 503.
C10_NoWeatherIs503 ==
    (pc = "done" /\ ~req.demo
        /\ tasks.kma.kind \in {"none", "exc"}
        /\ tasks.om.kind \in {"none", "exc"}) =>
        /\ response.status = 503
        /\ response.pack = None

\* C10, as the code has it: when both weather fetchers end without data for
\* a resolved profile, the request succeeds with HTTP 200 and a pack whose
\* climate section has no daily and hourly records, no warnings and no
\* provenance, and which has no soft hints; the pest section is whatever
\* the pest fetcher delivered.
C10_NoWeatherGivesEmptyClimate ==
    (pc = "done" /\ ~req.demo
        /\ tasks.kma.kind \in {"none", "exc"}
        /\ tasks.om.kind \in {"none", "exc"}) =>
        /\ response.status = 200
        /\ response.raised = None
        /\ response.pack # None
        /\ response.pack[1].climate.daily = <<>>
        /\ response.pack[1].climate.hourly = <<>>
        /\ response.pack[1].climate.warnings = <<>>
        /\ response.pack[1].climate.provenance = <<>>
        /\ response.pack[1].climate.horizon_days = 0
        /\ response.pack[1].soft_hints = None
        /\ response.pack[1].pest.crop = req.crop
        /\ (tasks.npms.kind = "dict") =>
            response.pack[1].pest.observations
                = normalize_observations(tasks.npms.data.observations)

\* both weather fetchers failed, one by returning None and one by raising,
\* the pest fetcher delivered, and the request has been answered
C10_Witness ==
    /\ pc = "done"
    /\ ~req.demo
    /\ tasks.kma.kind = "none"
    /\ tasks.om.kind = "exc"
    /\ tasks.npms.kind = "dict"
    /\ response.status = 200
    /\ response.pack # None
    /\ response.pack[1].pest.observations # <<>>

\* C11: when both weather fetchers return None and the pest fetcher
\* delivers one observation of the target metric with value 11.0, the
\* request succeeds with no daily and no hourly records, a pest section
\* holding that observation, and exactly one pest hint, which names the
\* observation's area and value.
C11_PestOnlyPack ==
    (pc = "done" /\ ~req.demo
        /\ tasks.kma = TaskNone /\ tasks.om = TaskNone
        /\ tasks.npms = TaskDict(NpmsPayloadMoth)) =>
        /\ response.raised = None
        /\ response.status = 200
        /\ response.pack # None
        /\ response.pack[1].climate.daily = <<>>
        /\ response.pack[1].climate.hourly = <<>>
        /\ Len(response.pack[1].pest.observations) = 1
        /\ response.pack[1].pest.observations[1].code = TARGET_METRIC_CODE
        /\ response.pack[1].pest.observations[1].value = Some(110)
        /\ response.pack[1].pest.provenance # <<>>
        /\ response.pack[1].pest_hints
            = <<[area |-> "Andong-si(ko)", value |-> 110]>>

\* that request has been answered, with its one hint
C11_Witness ==
    /\ pc = "done"
    /\ ~req.demo
    /\ tasks.kma = TaskNone /\ tasks.om = TaskNone
    /\ tasks.npms = TaskDict(NpmsPayloadMoth)
    /\ response.status = 200
    /\ response.pack # None
    /\ Len(response.pack[1].pest_hints) = 1

\* C12: the three fetches are started together and end in any order.  While
\* they run, a task that raised leaves the request unanswered and the other
\* tasks as they are; once the request is answered, all three tasks have
\* run to their end, no exception of a task has left aggregate, and the
\* pack is the one built from the results of the tasks that delivered, a
\* task that raised counting as no data for its source only.
C12_FailureIsolation ==
    /\ pc = "fetching" =>
        /\ \A f \in {"kma", "om", "npms"} :
            tasks[f].kind \in {"pending", "none", "exc", "dict"}
        /\ calls = [kma |-> 1, om |-> 1, npms |-> 1]
        /\ response = NoResponse
    /\ (pc = "done" /\ tasks # NoTasks) =>
        /\ \A f \in {"kma", "om", "npms"} :
            tasks[f].kind \in {"none", "exc", "dict"}
        /\ response.raised = None
        /\ response.status = 200
        /\ \E now \in Nows :
            response.pack =
                build_pack(ProfileOf(req),
                    records[<<Lower(req.region), req.crop>>].npms_region_code,
                    IF tasks.kma.kind = "dict"
                        THEN Some(tasks.kma.data) ELSE None,
                    IF tasks.om.kind = "dict"
                        THEN Some(tasks.om.data) ELSE None,
                    IF tasks.npms.kind = "dict"
                        THEN Some(tasks.npms.data) ELSE None,
                    now).pack
        /\ tasks.om.kind = "dict" =>
            /\ response.pack[1].climate.daily # <<>>
            /\ response.pack[1].climate.provenance # <<>>
        /\ tasks.kma.kind = "dict" =>
            response.pack[1].climate.provenance[1] = "KMA(2025-01-01)"
        /\ tasks.npms.kind = "dict" =>
            response.pack[1].pest.provenance # <<>>

\* the KMA task raised while the other two delivered, and the answer is a
\* pack with Open-Meteo's days and the pest observation
C12_Witness ==
    /\ pc = "done"
    /\ tasks.kma = TaskRaised
    /\ tasks.om = TaskDict(OpenMeteoPayload)
    /\ tasks.npms = TaskDict(NpmsPayloadMoth)
    /\ response.status = 200
    /\ response.pack # None
    /\ Len(response.pack[1].climate.daily) = 2
    /\ response.pack[1].climate.provenance = <<"Open-Meteo(2025-01-01)">>
    /\ Len(response.pack[1].pest.observations) = 1

(***************************************************************************)
(* Properties of the fetchers (SpecFetch)                                  *)
(***************************************************************************)
UpstreamFailures == HttpFailures \cup Malformed

\* C13: no fetch() of any of the three fetchers ends with an exception, and
\* a fetch one of whose requests met a transport error, a timeout, a non-2xx
\* status, a non-JSON body or JSON of unexpected shape, and none of whose
\* requests was answered with usable data, returns None.
C13_FetchersNeverRaise ==
    fpc = "done" =>
        /\ fresult # TaskRaised
        /\ (/\ http # <<>>
            /\ \A i \in DOMAIN http : http[i].body \in UpstreamFailures)
                => fresult = TaskNone

\* C14: when a fetch() call starts while the cache holds an entry for the
\* crop and the latitude and longitude of the resolved profile written with
\* three decimals, the call ends at once with exactly that payload, sends no
\* request, starts no sub-call and leaves the cache alone, whether or not an
\* API key is configured and whatever the region and the stage are.
C14_CacheHitShortCircuits ==
    [][(fpc = "idle" /\ fpc' # "idle") =>
        LET key == [crop |-> fcall'.crop, lat |-> (fcall'.lat + 5) \div 10,
                    lon |-> (fcall'.lon + 5) \div 10]
        IN  (\E e \in cache : e.key = key) =>
                /\ fpc' = "done"
                /\ \E e \in cache : e.key = key /\ fresult' = TaskDict(e.payload)
                /\ http' = <<>>
                /\ sub' = NoSubcalls
                /\ cache' = cache]_vars

\* a KmaFetcher without API key answers a profile of another region, another
\* stage and other fourth decimals from the entry seeded for Andong-si
C14_Witness ==
    /\ fetcher.who = "kma"
    /\ ~fetcher.api_key
    /\ fpc = "done"
    /\ fcall.region = "Yecheon-gun"
    /\ fcall.stage = "harvest"
    /\ fcall.lat = 365684
    /\ fresult = TaskDict(SeededPayload)
    /\ http = <<>>

\* C15: a KmaFetcher.fetch() call that starts with an API key and without a
\* cache entry for its key creates the three sub-call tasks together; when
\* all three have ended, an exception of one counting as no result, the call
\* returns None exactly if none of them gave a result, and otherwise one
\* payload that holds the days of the mid-term sub-calls that succeeded and
\* the hours of the short-range one if it succeeded, under the single
\* provenance "KMA(<date of the latest issue among them>)".
C15_KmaPartialSuccess ==
    [][/\ (/\ fpc = "idle" /\ fpc' # "idle" /\ fetcher.who = "kma"
           /\ fetcher.api_key
           /\ ~\E e \in cache : e.key = cache_key(fcall'))
            => (fpc' = "kma_sub"
                /\ \A w \in {"mid_land", "mid_ta", "short"} : sub'[w] = Pending)
       /\ (fpc = "kma_sub" /\ fpc' = "done") =>
            LET ok == {w \in {"mid_land", "mid_ta", "short"} :
                            sub[w].result.kind = "dict"}
                issued == {sub[w].result.data.issued_at.h : w \in ok}
            IN  /\ \A w \in {"mid_land", "mid_ta", "short"} :
                        sub[w].result.kind \in {"none", "exc", "dict"}
                /\ fresult' # TaskRaised
                /\ (fresult' = TaskNone) <=> (ok = {})
                /\ ok # {} =>
                    /\ fresult'.kind = "dict"
                    /\ fresult'.data.provenance =
                          RawStr("KMA(" \o IsoDate(MaxOf(issued) \div 24) \o ")")
                    /\ fresult'.data.issued_at.h = MaxOf(issued)
                    /\ \A w \in ok \ {"short"} :
                        \A i \in DOMAIN sub[w].result.data.daily :
                            \E j \in DOMAIN fresult'.data.daily :
                                fresult'.data.daily[j].date =
                                    sub[w].result.data.daily[i].date
                    /\ \A j \in DOMAIN fresult'.data.daily :
                        \E w \in ok \ {"short"} :
                            \E i \in DOMAIN sub[w].result.data.daily :
                                fresult'.data.daily[j].date =
                                    sub[w].result.data.daily[i].date
                    /\ fresult'.data.hourly =
                          (IF "short" \in ok THEN sub.short.result.data.hourly
                           ELSE <<>>)]_vars

\* the land forecast arrived, the temperature sub-call raised and the
\* short-range one gave nothing: the fetch returns the land forecast's days
C15_Witness ==
    /\ fpc = "done"
    /\ fetcher.who = "kma"
    /\ sub.mid_land.result.kind = "dict"
    /\ sub.mid_ta.result = TaskRaised
    /\ sub.short.result = TaskNone
    /\ fresult.kind = "dict"
    /\ Len(fresult.data.daily) = 2
    /\ fresult.data.provenance = RawStr("KMA(2025-01-01)")

\* the SVC51 answers from which no insectKey can be read: the request failed,
\* the body is not JSON, is an empty list, lists no entry, or lists entries
\* without insectKey
LookupFailures == HttpFailures \cup {"emptylist", "empty", "nokey"}

\* C16: in the requests of one NpmsFetcher.fetch() call, an SVC53 request
\* comes directly after an SVC51 request; when the SVC51 lookup gave no
\* insectKey and a default identifier is configured, the SVC53 request
\* follows all the same and carries the default identifier, and when the
\* lookup gave one, SVC53 carries that one.
C16_LookupFallback ==
    (fpc = "done" /\ fetcher.who = "npms") =>
        /\ \A i \in DOMAIN http :
            http[i].svc = "SVC53" => (i > 1 /\ http[i - 1].svc = "SVC51")
        /\ \A i \in DOMAIN http :
            http[i].svc = "SVC51" =>
                /\ (http[i].body \in LookupFailures /\ fetcher.default_insect_key)
                    => (/\ i + 1 \in DOMAIN http
                        /\ http[i + 1].svc = "SVC53"
                        /\ http[i + 1].insectKey = "default")
                /\ http[i].body = "ok"
                    => (/\ i + 1 \in DOMAIN http
                        /\ http[i + 1].svc = "SVC53"
                        /\ http[i + 1].insectKey = "looked-up")

\* SVC51 answered with an empty list, SVC53 was sent with the default
\* identifier and its observations are in the payload
C16_Witness ==
    /\ fpc = "done"
    /\ fetcher.who = "npms"
    /\ Len(http) = 3
    /\ http[2] = Get("SVC51", "emptylist")
    /\ http[3] = Get53("ok", "default")
    /\ fresult.kind = "dict"
    /\ fresult.data.observations # <<>>

(***************************************************************************)
(* Properties of the normalizers (SpecNormalize)                           *)
(***************************************************************************)
\* C17: a call of a normalizer never raises; for None it returns a result
\* with nothing in it, and for a payload dict it returns one record per entry
\* of the payload's lists, an hourly "ts", a warning "from" or "to" or a
\* temperature that cannot be read being None in its record.
C17_NormalizersTotal ==
    (fn = "normalize" /\ ret # CallPending) =>
        /\ ret.kind = "returned"
        /\ arg.data = None =>
            IF arg.src = "npms"
                THEN ret.value.bulletins = <<>> /\ ret.value.observations = <<>>
                     /\ ret.value.provenance = <<>>
                ELSE ret.value = EmptySource
        /\ (arg.data # None /\ arg.src # "npms") =>
            /\ Len(ret.value.daily) = Len(arg.data[1].daily)
            /\ Len(ret.value.hourly) = Len(arg.data[1].hourly)
            /\ \A i \in DOMAIN ret.value.hourly :
                arg.data[1].hourly[i].ts.t # "ts" => ret.value.hourly[i].ts = None

(***************************************************************************)
(* Properties of the evidence pack (Spec), continued                       *)
(***************************************************************************)
\* a fetch task ended with a payload that holds a daily entry, an hourly
\* entry or a warning
Contributed(task) ==
    /\ task.kind = "dict"
    /\ \/ task.data.daily # <<>>
       \/ task.data.hourly # <<>>
       \/ ("warnings" \in DOMAIN task.data /\ task.data.warnings # <<>>)

\* C18: in a pack built from live fetches, climate.provenance is the label
\* of KMA if KMA's payload holds a daily entry, an hourly entry or a warning,
\* followed by the label of Open-Meteo if Open-Meteo's payload holds a daily
\* or an hourly entry, and nothing else; a KMA payload with empty daily and
\* hourly lists leaves no label.
C18_ProvenanceReflectsContribution ==
    (pc = "done" /\ ~req.demo /\ response.status = 200) =>
        response.pack[1].climate.provenance =
            (IF Contributed(tasks.kma)
                THEN <<tasks.kma.data.provenance.s>> ELSE <<>>)
            \o (IF Contributed(tasks.om)
                THEN <<tasks.om.data.provenance.s>> ELSE <<>>)

\* the instant a payload was issued at, in Seoul time; empty when the task
\* gave no payload or the payload has no readable "issued_at"
IssuedInstants(task) ==
    IF task.kind = "dict" /\ task.data.issued_at.t = "ts"
        THEN {IF task.data.issued_at.tz = "utc"
                THEN task.data.issued_at.h + KstOffsetHours
                ELSE task.data.issued_at.h}
        ELSE {}

\* C19: the issued_at of a pack built from live fetches is the latest of the
\* instants at which the payloads of KMA, Open-Meteo and NPMS were issued,
\* those without one left out; it is the current time only when no payload
\* has one.
C19_IssuedAtIsLatest ==
    (pc = "done" /\ ~req.demo /\ response.status = 200) =>
        LET instants == IssuedInstants(tasks.kma) \cup IssuedInstants(tasks.om)
                        \cup IssuedInstants(tasks.npms)
            issued_at == response.pack[1].issued_at
        IN  IF instants # {}
                THEN issued_at \in instants /\ \A x \in instants : x <= issued_at
                ELSE issued_at \in Nows

\* KMA issued at 06:00, Open-Meteo at 00:00 UTC: the pack carries 09:00
C19_Witness ==
    /\ pc = "done"
    /\ response.status = 200
    /\ tasks.kma = TaskDict(KmaPayload)
    /\ tasks.om = TaskDict(OpenMeteoPayloadUtc)
    /\ tasks.npms = TaskDict(NpmsPayloadNoIssue)
    /\ response.pack[1].issued_at = 9

(***************************************************************************)
(* Properties of the soft hints (SpecHints)                                *)
(***************************************************************************)
\* C20: rain_run_max_days of a daily list is the length of its longest
\* stretch of adjacent entries each of which has a precip_mm above 0; it is
\* None, not 0, when the list has no such entry, the empty list included.
C20_LongestRainRun ==
    (fn = "rain_run_max_days" /\ ret # CallPending) =>
        LET wet == {i \in DOMAIN arg :
                        arg[i].precip_mm # None /\ arg[i].precip_mm[1] > 0}
            runs == {<<a, b>> \in (DOMAIN arg) \X (DOMAIN arg) :
                        a <= b /\ \A i \in a..b : i \in wet}
        IN  /\ ret.kind = "returned"
            /\ ret.value # Some(0)
            /\ IF wet = {} THEN ret.value = None
               ELSE ret.value = Some(MaxOf({r[2] - r[1] + 1 : r \in runs}))

\* rain, a day without a value, rain, rain: the longest run is 2
C20_Witness ==
    /\ fn = "rain_run_max_days"
    /\ Len(arg) = 4
    /\ arg[1].precip_mm = Some(5)
    /\ arg[2].precip_mm = None
    /\ arg[3].precip_mm = Some(120)
    /\ arg[4].precip_mm = Some(5)
    /\ ret = Returned(Some(2))

\* C21: heat_hours_ge_33c is the number of hourly records with a t_c of at
\* least 33.0 and wind_hours_ge_10ms the number of records with a wind_ms of
\* at least 10.0; for a series that has readings none of which qualifies the
\* number is 0, which differs from the None of a series without information.
C21_CountIsNumber ==
    (fn = "count_hours" /\ ret # CallPending) =>
        LET heat == Cardinality({i \in DOMAIN arg :
                        arg[i].t_c # None /\ arg[i].t_c[1] >= 330})
            wind == Cardinality({i \in DOMAIN arg :
                        arg[i].wind_ms # None /\ arg[i].wind_ms[1] >= 100})
        IN  /\ ret.value.heat_hours_ge_33c =
                    (IF \A i \in DOMAIN arg : arg[i].t_c = None
                        THEN None ELSE Some(heat))
            /\ ret.value.wind_hours_ge_10ms =
                    (IF \A i \in DOMAIN arg : arg[i].wind_ms = None
                        THEN None ELSE Some(wind))

\* C22: a record with rh_pct of at least 90 counts for the night of its own
\* date when its hour is 21..23 and for the night of the day before when its
\* hour is 0..5, and not at all at the hours 6..20; wet_nights_count is the
\* number of nights with at least 3 such records, None when there is none.
C22_WetNights ==
    (fn = "wet_nights" /\ ret # CallPending) =>
        LET wet == {i \in DOMAIN arg :
                        arg[i].rh_pct # None /\ arg[i].rh_pct[1] >= 900}
            of(d) == {i \in wet :
                        \/ arg[i].ts \div 24 = d /\ arg[i].ts % 24 \in 21..23
                        \/ arg[i].ts \div 24 = d + 1 /\ arg[i].ts % 24 \in 0..5}
            nights == {d \in -1..3 : Cardinality(of(d)) >= 3}
        IN  ret.value = (IF nights = {} THEN None
                         ELSE Some(Cardinality(nights)))

\* 23:00 of day 0 and 02:00 and 05:00 of day 1 are humid: one wet night,
\* while 06:00 does not count
C22_Witness ==
    /\ fn = "wet_nights"
    /\ ret = Returned(Some(1))
    /\ Len(arg) = 4
    /\ arg[1].ts = 23 /\ arg[2].ts = 26 /\ arg[3].ts = 29 /\ arg[4].ts = 30
    /\ \A i \in 1..4 : arg[i].rh_pct = Some(900)

\* C23: compute_pest_hints returns one hint per observation with code
\* SS0127 and a value of at least 10.0, in the order of the observations,
\* naming its area and value, and none for an observation of another code,
\* with a lower value or without value; no qualifying observation gives [].
C23_PestHintRule ==
    (fn = "compute_pest_hints" /\ ret # CallPending) =>
        LET q == {i \in DOMAIN arg :
                    /\ arg[i].code = "SS0127"
                    /\ arg[i].value # None
                    /\ arg[i].value[1] >= 100}
            before(i) == Cardinality({j \in q : j < i})
        IN  /\ Len(ret.value) = Cardinality(q)
            /\ \A i \in q :
                /\ ret.value[before(i) + 1].value = arg[i].value[1]
                /\ ret.value[before(i) + 1].area =
                    (IF arg[i].area = "" THEN "Andong-si(ko)" ELSE arg[i].area)

\* a reading of exactly 10.0 between one of another code and one of 9.9
C23_Witness ==
    /\ fn = "compute_pest_hints"
    /\ Len(arg) = 3
    /\ arg[1].code = "SS0128" /\ arg[1].value = Some(115)
    /\ arg[2].code = "SS0127" /\ arg[2].value = Some(100)
    /\ arg[3].code = "SS0127" /\ arg[3].value = Some(99)
    /\ ret.kind = "returned"
    /\ Len(ret.value) = 1
    /\ ret.value[1].value = 100

\* C24: a second run of the daily merge on the same normalized series, at
\* least one of which has daily data, returns the list the first run
\* returned, whatever the instant of either run
C24_MergeDeterministic ==
    [][(dpc = "merged" /\ (kmaDaily # <<>> \/ omDailyIn # <<>>)) =>
            dailyOut' = dailyOut]_vars

\* a second run has returned a non-empty list from inputs the first run
\* had enriched
C24_Witness ==
    /\ dpc = "again"
    /\ dailyOut # <<>>
    /\ omDaily # omDailyIn

\* C28: the daily merge leaves every record of the normalized KMA and
\* Open-Meteo series as it was handed to it
C28_MergeLeavesInputs ==
    dpc \in {"merged", "again"} => omDaily = omDailyIn

\* C25: the cache gains or replaces an entry only in the step that ends a
\* fetch() call with a payload, the entry being that payload under the key
\* of the call; a call that ends with None or with an exception, or that is
\* cancelled while suspended, leaves the cache as it was.
C25_NoCachePoisoning ==
    [][/\ \A e \in cache' \ cache :
            /\ fpc # "done" /\ fpc' = "done"
            /\ fresult' = TaskDict(e.payload)
            /\ e.key = cache_key(fcall')
            /\ "issued_at" \in DOMAIN e.payload
       /\ (fpc' \in {"done", "cancelled"} /\ fresult'.kind # "dict")
            => cache' = cache
       /\ (fpc' = "cancelled") => cache' = cache]_vars

\* a first call stored its payload; the second call, for other coordinates,
\* was cancelled after a request had been sent, and the cache holds what the
\* first call stored and nothing else
C25_Witness ==
    /\ fpc = "cancelled"
    /\ fetcher.calls = 2
    /\ http # <<>>
    /\ Cardinality(cache) = 1
    /\ \A e \in cache : e.key # cache_key(fcall) /\ e.payload # SeededPayload

(***************************************************************************)
(* Properties of _get_client (SpecClient)                                  *)
(***************************************************************************)
\* C26: however the concurrent first calls of _get_client on one fetcher
\* interleave, at most one HTTP client is ever constructed, and every call
\* that has returned has returned that one client.
C26_SingleLazyClient ==
    /\ built <= 1
    /\ \A c \in Callers : gpc[c] = "done" => (got[c] = 1 /\ got[c] = client)

\* three callers have their client while a fourth, which found the client
\* already there, is still inside the lock
C26_Witness ==
    /\ \E c \in Callers :
        /\ gpc[c] = "release"
        /\ lock = c
        /\ \A d \in Callers \ {c} : gpc[d] = "done" /\ got[d] = 1
    /\ built = 1

(***************************************************************************)
(* Properties of the NPMS observation filter (SpecNormalize)               *)
(***************************************************************************)
\* C27: the observations _parse_npms_observations returns are exactly those
\* of the entries with a value whose sigunguCode is the profile's
\* npms_region_code, that code without its trailing or its leading zeros, or
\* its first four or five digits; entries of any other sigunguCode are left
\* out, whichever region code the profile has.
C27_OwnAreaOnly ==
    (fn = "parse_npms_observations" /\ ret # CallPending) =>
        LET r == arg.region_code
            own == {i \in DOMAIN arg.entries :
                        /\ arg.entries[i].sigunguCode \in region_code_variants(r)
                        /\ arg.entries[i].inqireValue \notin {None, Some(0)}}
        IN  IF own = {} THEN ret.value = None
            ELSE /\ ret.value # None
                 /\ Len(ret.value[1]) = Cardinality(own)
                 /\ \A o \in DOMAIN ret.value[1] :
                        \E i \in own :
                            /\ ret.value[1][o].value = arg.entries[i].inqireValue[1]
                            /\ ret.value[1][o].area = arg.entries[i].sigunguNm

(***************************************************************************)
(* Properties of the SMS keywords (SpecKeywords)                           *)
(***************************************************************************)
\* C29: once KeywordHandler.handle has handled REPORT for a profile with no
\* change pending, the profile is not opted out, and a brief requested for
\* it next is not rejected with 403.
C29_ReportResumes ==
    [][/\ (/\ inbound'.op = "sms"
           /\ inbound'.message = <<"R", "E", "P", "O", "R", "T">>
           /\ inbound'.id \notin store.pending)
            => inbound'.id \notin store'.opt_out
       /\ (/\ inbound.op = "sms"
           /\ inbound.message = <<"R", "E", "P", "O", "R", "T">>
           /\ reply \notin {"bad format", "no profile", "changed"}
           /\ inbound'.op = "brief"
           /\ inbound'.id = inbound.id)
            => reply' # "403"]_vars

\* the positions around the parts of a text: its commas and slashes, and
\* the positions before its first and after its last character
Separators(text) ==
    {i \in DOMAIN text : text[i] \in {",", "/"}} \cup {0, Len(text) + 1}

\* <<a, b>>: a part with a character other than a blank lies between the
\* neighbouring separators a and b
FilledParts(text) ==
    {ab \in Separators(text) \X Separators(text) :
        /\ ab[1] < ab[2]
        /\ ~\E i \in Separators(text) : ab[1] < i /\ i < ab[2]
        /\ \E i \in (ab[1] + 1)..(ab[2] - 1) : text[i] # " "}

\* the k-th of them, without the blanks around it
FilledPart(text, k) ==
    LET ab == CHOOSE x \in FilledParts(text) :
                Cardinality({y \in FilledParts(text) : y[1] < x[1]}) = k - 1
        inked == {i \in (ab[1] + 1)..(ab[2] - 1) : text[i] # " "}
    IN  SubSeq(text, MinOf(inked), MaxOf(inked))

\* C30: a message from a profile with a change pending gets a reply of the
\* change flow and touches no opt-out; it clears the pending flag exactly
\* when it has three non-empty parts between its commas and slashes and the
\* store holds the profile, whose region, crop and stage then become the
\* three parts; otherwise the flag stays and the profiles are as before.
\* Nothing else clears a pending flag.
C30_ChangeWizard ==
    [][\A p \in ProfileIds :
        /\ (p \in store.pending /\ inbound'.op = "sms" /\ inbound'.id = p) =>
            LET m == inbound'.message
            IN  /\ reply' \in {"bad format", "no profile", "changed"}
                /\ store'.opt_out = store.opt_out
                /\ store'.latest = store.latest
                /\ IF Cardinality(FilledParts(m)) = 3
                      /\ store.profiles[p] # None
                    THEN /\ p \notin store'.pending
                         /\ reply' = "changed"
                         /\ store'.profiles =
                              [store.profiles EXCEPT ![p] =
                                Some([id |-> p, region |-> FilledPart(m, 1),
                                      crop |-> FilledPart(m, 2),
                                      stage |-> FilledPart(m, 3)])]
                    ELSE /\ p \in store'.pending
                         /\ store'.profiles = store.profiles
        /\ (p \in store.pending /\ p \notin store'.pending) =>
            (inbound'.op = "sms" /\ inbound'.id = p)]_vars

\* STOP arrived while a change was pending: it was answered as a reply with
\* the wrong format, the change is still pending and nobody is opted out
C30_Witness ==
    /\ inbound.op = "sms"
    /\ inbound.message = <<"S", "T", "O", "P">>
    /\ reply = "bad format"
    /\ inbound.id \in store.pending
    /\ store.opt_out = {}
    /\ store.profiles[inbound.id] # None
====
